---- MODULE Spec2Model ----
(***************************************************************************)
(* Narrative-consistency and page-composition pipeline of the book         *)
(* generator: StoryWriterAgent, TextGenerator/StoryContext, ImageGenerator, *)
(* ImageCreatorAgent, ImpaginatorAgent, PDFGenerator, IdeatorAgent,         *)
(* IdeogramClient, BookCreationWorkflow, and the entry points main.py,      *)
(* app.py and book_publishing_web/app.py.  Each component is a state        *)
(* machine of its own (SpecWriter, SpecText, ...); the variables of the     *)
(* other components stay at their idle values while one component runs.     *)
(***************************************************************************)
EXTENDS Integers, Sequences, FiniteSets, TLC

VARIABLES
    \* StoryWriterAgent.write_story
    book_plan,            \* the BookPlan argument: [title, chapters]
    complete_book_text,   \* local complete_book_text (a token sequence)
    chapters_content,     \* StoryContent.chapters_content being returned
    w_pc,                 \* position inside write_story
    \* TextGenerator.generate_all_page_texts
    t_plan,               \* the book_plan dict: [themes, pages]
    t_idx,                \* index in pages of the page the loop is at
    heap,                 \* the container objects StoryContext instances refer to
    story_context,        \* local story_context: [story_summary, ref]
    previous_page_text,   \* local previous_page_text
    generated_texts,      \* local generated_texts: page number -> text data
    text_calls,           \* the calls made to openai_client.generate_page_text
    t_pc,                 \* position inside generate_all_page_texts
    \* ImageGenerator.generate_all_page_images
    i_plan,               \* the book_plan dict and include_cover: [pages, include_cover]
    i_idx,                \* index in pages of the page the loop is at
    reference_image_path, \* ImageGenerator.reference_image_path
    generated_images,     \* local generated_images: page number -> path
    image_requests,       \* the requests made to the image service
    i_pc,                 \* position inside generate_all_page_images
    \* ImpaginatorAgent.create_book_pdf
    p_story,              \* the story_content argument: [book_plan, chapters_content]
    p_images,             \* the generated_images argument
    image_map,            \* local image_map: placeholder id -> path
    html_cover_path,      \* local html_cover_path
    book_chapters,        \* book_data["chapters"]
    p_idx,                \* index of the chapter the loop is at
    p_result,             \* the value create_book_pdf returns
    p_pc,                 \* position inside create_book_pdf
    \* ImageCreatorAgent.create_images
    c_story,              \* the story_content argument
    c_plan,               \* the book_plan argument: [image_style_guide, cover_concept]
    dalle_model,          \* ImageCreatorAgent.dalle_model
    c_idx,                \* index of the placeholder the loop is at
    c_images,             \* local generated_images
    creator_requests,     \* the calls made to the image model
    c_pc,                 \* position inside create_images
    \* PDFGenerator._create_alternating_layout_pdf / _generate_alternating_html_content
    f_layout,             \* which of the two is running: "pdf" or "html"
    f_pages,              \* local pages_sorted
    page_images,          \* the page_images argument: page number -> [path, exists]
    page_texts,           \* the page_texts argument: page number -> text data
    f_idx,                \* index in pages_sorted of the page the loop is at
    pdf_page_number,      \* local pdf_page_number (page_counter in the HTML)
    output_pages,         \* the pages written so far
    f_pc,                 \* position inside the function
    \* IdeatorAgent.generate_initial_idea
    g_args,               \* the arguments: [title, genre, theme]
    g_answer,             \* how the LLM call ended
    plan_dict,            \* local plan_dict
    g_result,             \* the BookPlan returned
    g_pc,                 \* position inside generate_initial_idea
    \* BookCreationWorkflow.execute
    wf_book_plan,         \* local book_plan
    wf_story,             \* local story_content
    wf_images,            \* local generated_images
    pdf_path,             \* local pdf_path
    wf_calls,             \* the agent calls made, in order
    wf_log,               \* the lines logged
    wf_return,            \* the value execute returns
    wf_pc,                \* position inside execute
    \* IdeogramClient.generate_image / IdeogramImageGenerationTool.forward
    ig_impl,              \* which of the two is running: "client" or "tool"
    output_path,          \* the output_path argument
    ig_events,            \* the HTTP requests and waits made, in order
    attempt,              \* loop variable attempt of the download loop
    output_file,          \* whether the file at output_path exists
    ig_result,            \* how the call ended: [kind, value]
    ig_pc,                \* position inside the function
    \* StoryContext.update_from_page
    u_plan,               \* the book_plan argument: [themes]
    u_context,            \* the attributes of the StoryContext
    u_calls,              \* the update_from_page calls made: [page_data, page_text]
    \* src/app.py and src/main.py: one book generation
    a_entry,              \* the entry point running: "app" or "main"
    ongoing_generations,  \* the dict ongoing_generations: id -> [status, progress, pdf_path]
    a_stage,              \* index of the pipeline call the worker (or main) is at
    a_calls,              \* the pipeline calls made, in order, with their outcome
    a_pc,                 \* position of the worker thread (or of main)
    d_pc,                 \* position of the download_book request being served
    a_responses,          \* the responses download_book has given
    \* book_publishing_web/app.py: one book job
    book_jobs,            \* the dict book_jobs: id -> [status, progress, pdf_path, error]
    j_pc,                 \* position of the worker thread run_book_generation
    j_pdf_path,           \* local pdf_path of run_book_generation
    s_pc,                 \* position of the get_book_status request being served
    s_elapsed,            \* local elapsed_time of get_book_status
    s_responses           \* the responses get_book_status has given

writerVars == <<book_plan, complete_book_text, chapters_content, w_pc>>

textVars == <<t_plan, t_idx, heap, story_context, previous_page_text,
              generated_texts, text_calls, t_pc>>

imageVars == <<i_plan, i_idx, reference_image_path, generated_images,
               image_requests, i_pc>>

impaginatorVars == <<p_story, p_images, image_map, html_cover_path,
                     book_chapters, p_idx, p_result, p_pc>>

creatorVars == <<c_story, c_plan, dalle_model, c_idx, c_images,
                 creator_requests, c_pc>>

pdfVars == <<f_layout, f_pages, page_images, page_texts, f_idx,
             pdf_page_number, output_pages, f_pc>>

ideatorVars == <<g_args, g_answer, plan_dict, g_result, g_pc>>

workflowVars == <<wf_book_plan, wf_story, wf_images, pdf_path, wf_calls,
                  wf_log, wf_return, wf_pc>>

ideogramVars == <<ig_impl, output_path, ig_events, attempt, output_file,
                  ig_result, ig_pc>>

contextVars == <<u_plan, u_context, u_calls>>

appVars == <<a_entry, ongoing_generations, a_stage, a_calls, a_pc, d_pc,
             a_responses>>

jobsVars == <<book_jobs, j_pc, j_pdf_path, s_pc, s_elapsed, s_responses>>

vars == <<writerVars, textVars, imageVars, impaginatorVars, creatorVars,
        pdfVars, ideatorVars, workflowVars, ideogramVars, contextVars,
        appVars, jobsVars>>

exceptWriter == <<textVars, imageVars, impaginatorVars, creatorVars, pdfVars,
        ideatorVars, workflowVars, ideogramVars, contextVars, appVars,
        jobsVars>>

exceptText == <<writerVars, imageVars, impaginatorVars, creatorVars, pdfVars,
        ideatorVars, workflowVars, ideogramVars, contextVars, appVars,
        jobsVars>>

exceptImage == <<writerVars, textVars, impaginatorVars, creatorVars, pdfVars,
        ideatorVars, workflowVars, ideogramVars, contextVars, appVars,
        jobsVars>>

exceptImpaginator == <<writerVars, textVars, imageVars, creatorVars, pdfVars,
        ideatorVars, workflowVars, ideogramVars, contextVars, appVars,
        jobsVars>>

exceptCreator == <<writerVars, textVars, imageVars, impaginatorVars, pdfVars,
        ideatorVars, workflowVars, ideogramVars, contextVars, appVars,
        jobsVars>>

exceptPdf == <<writerVars, textVars, imageVars, impaginatorVars, creatorVars,
        ideatorVars, workflowVars, ideogramVars, contextVars, appVars,
        jobsVars>>

exceptIdeator == <<writerVars, textVars, imageVars, impaginatorVars,
        creatorVars, pdfVars, workflowVars, ideogramVars, contextVars,
        appVars, jobsVars>>

exceptWorkflow == <<writerVars, textVars, imageVars, impaginatorVars,
        creatorVars, pdfVars, ideatorVars, ideogramVars, contextVars,
        appVars, jobsVars>>

exceptIdeogram == <<writerVars, textVars, imageVars, impaginatorVars,
        creatorVars, pdfVars, ideatorVars, workflowVars, contextVars,
        appVars, jobsVars>>

exceptContext == <<writerVars, textVars, imageVars, impaginatorVars,
        creatorVars, pdfVars, ideatorVars, workflowVars, ideogramVars,
        appVars, jobsVars>>

exceptApp == <<writerVars, textVars, imageVars, impaginatorVars, creatorVars,
        pdfVars, ideatorVars, workflowVars, ideogramVars, contextVars,
        jobsVars>>

exceptJobs == <<writerVars, textVars, imageVars, impaginatorVars,
        creatorVars, pdfVars, ideatorVars, workflowVars, ideogramVars,
        contextVars, appVars>>

(***************************************************************************)
(* Text.  A Python string is a sequence of tokens.  Tokens of one line are  *)
(* joined by single spaces; NL is the paragraph break "\n\n".               *)
(*   Hdr(n)    the chapter header prefix "## Chapter n:"                    *)
(*   Word(s)   text s holding no newline, no bracket and no header prefix   *)
(*   Marker(d) the image marker "[IMAGE: d]", d holding no newline/bracket  *)
(***************************************************************************)
NL == [k |-> "nl", s |-> ""]

Hdr(n) == [k |-> "hdr", s |-> n]

Word(s) == [k |-> "w", s |-> s]

Marker(d) == [k |-> "img", s |-> d]

IsMarker(t) == t.k = "img"

IsNL(t) == t.k = "nl"

\* str.strip() on a token sequence: leading and trailing whitespace goes.
RECURSIVE LStrip(_)
LStrip(text) ==
    IF text # <<>> /\ IsNL(Head(text)) THEN LStrip(Tail(text)) ELSE text

RECURSIVE RStrip(_)
RStrip(text) ==
    IF text # <<>> /\ IsNL(text[Len(text)])
    THEN RStrip(SubSeq(text, 1, Len(text) - 1))
    ELSE text

Strip(text) == RStrip(LStrip(text))

\* str.replace(old, new, 1) searching from the second token on.
ReplaceFirstAfterHead(text, old, new) ==
    IF text = <<>> THEN <<>>
    ELSE <<Head(text)>> \o
         (IF \E k \in 2..Len(text) : text[k] = old
          THEN LET k == CHOOSE k \in 2..Len(text) :
                            /\ text[k] = old
                            /\ \A j \in 2..(k - 1) : text[j] # old
               IN  SubSeq(text, 2, k - 1) \o <<new>> \o SubSeq(text, k + 1, Len(text))
          ELSE Tail(text))

\* str.replace(old, new, 1): only the first occurrence is replaced.
RECURSIVE ReplaceFirst(_, _, _)
ReplaceFirst(text, old, new) ==
    IF text = <<>> THEN <<>>
    ELSE IF Head(text) = old THEN <<new>> \o Tail(text)
    ELSE <<Head(text)>> \o ReplaceFirst(Tail(text), old, new)

\* re.findall(r"\[IMAGE: (.*?)\]", text): the descriptions, in text order.
RECURSIVE FindMarkers(_)
FindMarkers(text) ==
    IF text = <<>> THEN <<>>
    ELSE IF IsMarker(Head(text)) THEN <<Head(text).s>> \o FindMarkers(Tail(text))
    ELSE FindMarkers(Tail(text))

(***************************************************************************)
(* re.finditer(r'##?\s*Chapter\s*\d+:?\s*([^\n]+)', text, re.IGNORECASE).   *)
(* After a header prefix the greedy \s* runs over every following newline   *)
(* and the group ([^\n]+) takes the whole next non-empty line, so a header  *)
(* with an empty title takes the first body line as its title, and a header *)
(* prefix standing inside that line is consumed with it.  A header followed *)
(* by nothing but whitespace still matches (the optional ':' is given back  *)
(* to the group).  A match is [start, stop]: its first and last token.      *)
(***************************************************************************)
RECURSIVE SkipNL(_, _)
SkipNL(text, i) ==
    IF i <= Len(text) /\ IsNL(text[i]) THEN SkipNL(text, i + 1) ELSE i

RECURSIVE LineEnd(_, _)
LineEnd(text, i) ==
    IF i < Len(text) /\ ~IsNL(text[i + 1]) THEN LineEnd(text, i + 1) ELSE i

RECURSIVE ChapterMatchesFrom(_, _)
ChapterMatchesFrom(text, i) ==
    IF i > Len(text) THEN <<>>
    ELSE IF text[i].k = "hdr"
    THEN LET j == SkipNL(text, i + 1)
             stop == IF j > Len(text) THEN i ELSE LineEnd(text, j)
             title == IF j > Len(text) THEN <<Word(":")>> ELSE SubSeq(text, j, stop)
         IN  <<[start |-> i, stop |-> stop, title |-> title]>>
                 \o ChapterMatchesFrom(text, stop + 1)
    ELSE ChapterMatchesFrom(text, i + 1)

ChapterMatches(text) == ChapterMatchesFrom(text, 1)

\* complete_book_text[chapter_start:chapter_end].strip()
ChapterTextOf(text, matches, i) ==
    LET chapter_start == matches[i].stop + 1
        chapter_end == IF i + 1 <= Len(matches) THEN matches[i + 1].start - 1
                       ELSE Len(text)
    IN  Strip(SubSeq(text, chapter_start, chapter_end))

\* f"chapter{i+1}_image{idx+1}", with i and idx already 1-based here
PlaceholderId(i, idx) ==
    "chapter" \o ToString(i) \o "_image" \o ToString(idx)

\* The loop of lines 118-122: one placeholder per found description, and the
\* first marker still carrying that description rewritten to carry the id.
RECURSIVE ResolveFrom(_, _, _, _)
ResolveFrom(temp_chapter_text, placeholder_matches, i, idx) ==
    IF idx > Len(placeholder_matches)
    THEN [text_markdown |-> temp_chapter_text, image_placeholders |-> <<>>]
    ELSE LET desc == placeholder_matches[idx]
             placeholder_id == PlaceholderId(i, idx)
             rest == ResolveFrom(
                        ReplaceFirst(temp_chapter_text, Marker(desc),
                                     Marker(placeholder_id)),
                        placeholder_matches, i, idx + 1)
         IN  [text_markdown |-> rest.text_markdown,
              image_placeholders |->
                  <<[id |-> placeholder_id, description |-> desc]>>
                      \o rest.image_placeholders]

ResolvePlaceholders(chapter_text, i) ==
    ResolveFrom(chapter_text, FindMarkers(chapter_text), i, 1)

TitleTokens(title) == IF title = "" THEN <<>> ELSE <<Word(title)>>

\* Lines 84-88: the markers of a fallback chapter.
RECURSIVE FallbackMarkers(_, _, _)
FallbackMarkers(title, img_idx, needed) ==
    IF img_idx >= needed THEN <<>>
    ELSE <<IF img_idx = 0
           THEN Marker("Opening scene for " \o title)
           ELSE Marker(title \o " - scene " \o ToString(img_idx + 1))>>
             \o FallbackMarkers(title, img_idx + 1, needed)

\* Lines 79-90: header line, blank line, one body paragraph, blank line.
FallbackChapter(i, chapter) ==
    <<Hdr(ToString(i))>> \o TitleTokens(chapter.title) \o <<NL>>
        \o <<Word("This is the engaging content for chapter '"
                    \o chapter.title \o "'."),
             Word("It tells the story of")>>
        \o chapter.summary \o <<Word(".")>>
        \o FallbackMarkers(chapter.title, 0, chapter.image_placeholders_needed)
        \o <<Word("The chapter continues with exciting developments and transitions smoothly to the next part of the story."),
             NL>>

RECURSIVE FallbackChapters(_, _)
FallbackChapters(chapters, i) ==
    IF i > Len(chapters) THEN <<>>
    ELSE FallbackChapter(i, chapters[i]) \o FallbackChapters(chapters, i + 1)

\* Lines 77-90
FallbackBookText(plan) ==
    <<Word("# " \o plan.title), NL>> \o FallbackChapters(plan.chapters, 1)

\* Lines 100-129: one ChapterContent per header match.
ParseChapters(text) ==
    LET matches == ChapterMatches(text)
    IN  [i \in 1..Len(matches) |->
            LET r == ResolvePlaceholders(ChapterTextOf(text, matches, i), i)
            IN  [title |-> matches[i].title,
                 text_markdown |-> r.text_markdown,
                 image_placeholders |-> r.image_placeholders]]

\* Lines 132-149: no header found, the whole text is chapter 1.
ParseSingleChapter(text, plan) ==
    LET r == ResolvePlaceholders(text, 1)
    IN  <<[title |-> TitleTokens(plan.title),
           text_markdown |-> r.text_markdown,
           image_placeholders |-> r.image_placeholders]>>

\* The flat list built with each chapter's placeholders put in front.
RECURSIVE AllImagePlaceholdersPrepended(_)
AllImagePlaceholdersPrepended(chapters) ==
    IF chapters = <<>> THEN <<>>
    ELSE AllImagePlaceholdersPrepended(Tail(chapters))
             \o Head(chapters).image_placeholders

\* StoryContent.all_image_placeholders
RECURSIVE AllImagePlaceholders(_)
AllImagePlaceholders(chapters) ==
    IF chapters = <<>> THEN <<>>
    ELSE Head(chapters).image_placeholders \o AllImagePlaceholders(Tail(chapters))

(***************************************************************************)
(* Inputs of write_story.                                                   *)
(***************************************************************************)
MaxChapters == 2

MaxTextLen == 3

\* Chapter outlines a plan may hold: an ordinary one, one with no image, one
\* whose title is the empty string, and one whose summary quotes a marker.
ChapterOutlines ==
    { [title |-> "Dawn", summary |-> <<Word("a quiet morning")>>,
       image_placeholders_needed |-> 2],
      [title |-> "Dusk", summary |-> <<Word("the way home")>>,
       image_placeholders_needed |-> 0],
      [title |-> "", summary |-> <<Word("an untitled part")>>,
       image_placeholders_needed |-> 1],
      [title |-> "Map", summary |-> <<Word("the map"), Marker("old map")>>,
       image_placeholders_needed |-> 1] }

BookPlans ==
    { [title |-> "Book", chapters |-> cs] :
        cs \in UNION { [1..n -> ChapterOutlines] : n \in 1..MaxChapters } }

\* What the text-generation call may return: any text over these tokens.
TextTokens ==
    { Hdr("1"), NL, Word("prose"), Marker("a red door"),
      Marker(PlaceholderId(1, 1)) }

GeneratedTexts == UNION { [1..n -> TextTokens] : n \in 0..MaxTextLen }

WriterIdle ==
    /\ book_plan = [title |-> "", chapters |-> <<>>]
    /\ complete_book_text = <<>>
    /\ chapters_content = <<>>
    /\ w_pc = "idle"

WriterInit ==
    /\ book_plan \in BookPlans
    /\ complete_book_text = <<>>
    /\ chapters_content = <<>>
    /\ w_pc = "start"

\* Lines 67-70: self.run returns the book text.
WriteStoryGenerated ==
    /\ w_pc = "start"
    /\ \E text \in GeneratedTexts : complete_book_text' = text
    /\ w_pc' = "generated"
    /\ UNCHANGED <<book_plan, chapters_content, exceptWriter>>

\* Lines 72-90: self.run raises, the fallback text is built from the plan.
WriteStoryFallback ==
    /\ w_pc = "start"
    /\ complete_book_text' = FallbackBookText(book_plan)
    /\ w_pc' = "fallback"
    /\ UNCHANGED <<book_plan, chapters_content, exceptWriter>>

\* Lines 92-159: split into chapters, resolve the markers, return.
WriteStoryParse ==
    /\ w_pc \in {"generated", "fallback"}
    /\ chapters_content' =
          IF ChapterMatches(complete_book_text) # <<>>
          THEN ParseChapters(complete_book_text)
          ELSE ParseSingleChapter(complete_book_text, book_plan)
    /\ w_pc' = IF w_pc = "generated" THEN "done" ELSE "done_fallback"
    /\ UNCHANGED <<book_plan, complete_book_text, exceptWriter>>

WriterDone == w_pc \in {"done", "done_fallback"}

(***************************************************************************)
(* Claims about StoryWriterAgent.write_story                                *)
(***************************************************************************)
\* The text of chapter n before its markers were resolved.
RawChapterText(n) ==
    IF ChapterMatches(complete_book_text) # <<>>
    THEN ChapterTextOf(complete_book_text, ChapterMatches(complete_book_text), n)
    ELSE complete_book_text

\* text with its j-th marker carrying the j-th id of chapter n, the rest as is
RECURSIVE Renumbered(_, _, _)
Renumbered(text, n, idx) ==
    IF text = <<>> THEN <<>>
    ELSE IF IsMarker(Head(text))
    THEN <<Marker(PlaceholderId(n, idx))>> \o Renumbered(Tail(text), n, idx + 1)
    ELSE <<Head(text)>> \o Renumbered(Tail(text), n, idx)

\* C1: a chapter text with k markers yields exactly the k placeholders
\* chapter{N}_image1..k, the i-th paired with the i-th marker's description,
\* and the rewritten text carries each id exactly once in the order of the
\* original markers, whatever the descriptions are.
C1_PlaceholdersResolvedInOrder ==
    WriterDone =>
        \A n \in 1..Len(chapters_content) :
            LET raw == RawChapterText(n)
                descs == FindMarkers(raw)
                c == chapters_content[n]
            IN  /\ c.image_placeholders =
                       [idx \in 1..Len(descs) |->
                           [id |-> PlaceholderId(n, idx), description |-> descs[idx]]]
                /\ c.text_markdown = Renumbered(raw, n, 1)

\* C2: when the text-generation call raises, the returned StoryContent has one
\* ChapterContent per planned chapter, in plan order, each with a non-empty
\* text body and exactly image_placeholders_needed placeholders.
C2_FallbackMatchesPlan ==
    w_pc = "done_fallback" =>
        /\ Len(chapters_content) = Len(book_plan.chapters)
        /\ \A i \in 1..Len(chapters_content) :
              /\ i <= Len(book_plan.chapters)
              /\ chapters_content[i].title = TitleTokens(book_plan.chapters[i].title)
              /\ chapters_content[i].text_markdown # <<>>
              /\ Len(chapters_content[i].image_placeholders)
                     = book_plan.chapters[i].image_placeholders_needed

\* The ids of the placeholders of one ChapterContent.
PlaceholderIds(chapter) ==
    { chapter.image_placeholders[k].id :
        k \in 1..Len(chapter.image_placeholders) }

\* C21: in every ChapterContent returned by write_story, from generated or
\* fallback text, every marker left in text_markdown carries the id of one of
\* that chapter's image_placeholders; none still carries a description.
C21_MarkersCarryPlaceholderIds ==
    WriterDone =>
        \A n \in 1..Len(chapters_content) :
            \A k \in 1..Len(chapters_content[n].text_markdown) :
                LET t == chapters_content[n].text_markdown[k]
                IN  IsMarker(t) => t.s \in PlaceholderIds(chapters_content[n])

\* A returned chapter whose text held the described marker and then a marker
\* that already read like an id: both markers now carry ids of the chapter.
C21_Witness ==
    /\ w_pc = "done"
    /\ Len(chapters_content) = 1
    /\ FindMarkers(RawChapterText(1)) = <<"a red door", PlaceholderId(1, 1)>>
    /\ FindMarkers(chapters_content[1].text_markdown)
           = <<PlaceholderId(1, 2), PlaceholderId(1, 1)>>

\* The number of placeholders of the first n chapters.
RECURSIVE PlaceholderCount(_, _)
PlaceholderCount(chapters, n) ==
    IF n = 0 THEN 0
    ELSE PlaceholderCount(chapters, n - 1) + Len(chapters[n].image_placeholders)

\* C22: all_image_placeholders is the chapters' image_placeholders lists put
\* one after the other in chapter order, each in its own order, a chapter
\* without placeholders adding nothing; its length is the sum of the counts.
C22_AllPlaceholdersInChapterOrder ==
    WriterDone =>
        LET flat == AllImagePlaceholders(chapters_content)
        IN  /\ Len(flat) = PlaceholderCount(chapters_content, Len(chapters_content))
            /\ \A n \in 1..Len(chapters_content) :
                  \A j \in 1..Len(chapters_content[n].image_placeholders) :
                      /\ PlaceholderCount(chapters_content, n - 1) + j \in DOMAIN flat
                      /\ flat[PlaceholderCount(chapters_content, n - 1) + j]
                             = chapters_content[n].image_placeholders[j]

\* A returned story whose first chapter has no placeholder and whose second
\* chapter has two.
C22_Witness ==
    /\ WriterDone
    /\ Len(chapters_content) = 2
    /\ chapters_content[1].image_placeholders = <<>>
    /\ Len(chapters_content[2].image_placeholders) = 2
    /\ Len(AllImagePlaceholders(chapters_content)) = 2

\* C30: the number of placeholders in all_image_placeholders of the returned
\* StoryContent equals the number of markers in the complete book text (the
\* split into chapters loses no marker, those before the first chapter
\* header included), and the ids of all placeholders are pairwise distinct.
C30_NoMarkerLostAndIdsDistinct ==
    WriterDone =>
        LET flat == AllImagePlaceholders(chapters_content)
        IN  /\ Len(flat) = Len(FindMarkers(complete_book_text))
            /\ \A k, l \in 1..Len(flat) : flat[k].id = flat[l].id => k = l

(***************************************************************************)
(* Python str and list operations, computed on TLA+ strings and sequences.  *)
(***************************************************************************)
UpperCase == "ABCDEFGHIJKLMNOPQRSTUVWXYZ"

LowerCase == "abcdefghijklmnopqrstuvwxyz"

\* The lower-case letter of each upper-case letter.
LowerTable ==
    [c \in {SubSeq(UpperCase, i, i) : i \in 1..Len(UpperCase)} |->
        LET i == CHOOSE j \in 1..Len(UpperCase) : SubSeq(UpperCase, j, j) = c
        IN  SubSeq(LowerCase, i, i)]

LowerChar(c) == IF c \in DOMAIN LowerTable THEN LowerTable[c] ELSE c

\* str.lower()
RECURSIVE Lower(_)
Lower(s) ==
    IF s = "" THEN ""
    ELSE LowerChar(SubSeq(s, 1, 1)) \o Lower(SubSeq(s, 2, Len(s)))

\* needle in hay, for two strings
In(needle, hay) ==
    \E i \in 1..(Len(hay) - Len(needle) + 1) :
        SubSeq(hay, i, i + Len(needle) - 1) = needle

\* str.split(): the maximal runs of non-space characters
RECURSIVE SplitFrom(_, _)
SplitFrom(s, word) ==
    IF s = "" THEN (IF word = "" THEN <<>> ELSE <<word>>)
    ELSE IF SubSeq(s, 1, 1) = " "
    THEN (IF word = "" THEN <<>> ELSE <<word>>)
             \o SplitFrom(SubSeq(s, 2, Len(s)), "")
    ELSE SplitFrom(SubSeq(s, 2, Len(s)), word \o SubSeq(s, 1, 1))

Split(s) == SplitFrom(s, "")

\* sep.join(parts)
RECURSIVE Join(_, _)
Join(sep, parts) ==
    IF parts = <<>> THEN ""
    ELSE IF Len(parts) = 1 THEN parts[1]
    ELSE parts[1] \o sep \o Join(sep, Tail(parts))

\* any(w in text for w in words)
AnyIn(words, text) == \E i \in 1..Len(words) : In(words[i], text)

\* x in seq, for a list
SeqContains(seq, x) == \E i \in 1..Len(seq) : seq[i] = x

\* seq[-n:] taken one element too far back
LastNOffByOne(seq, n) ==
    SubSeq(seq, IF Len(seq) > n THEN Len(seq) - n ELSE 1, Len(seq))

\* seq[-n:]
LastN(seq, n) ==
    SubSeq(seq, IF Len(seq) > n THEN Len(seq) - n + 1 ELSE 1, Len(seq))

\* s[:n]
Prefix(s, n) == SubSeq(s, 1, IF Len(s) > n THEN n ELSE Len(s))

(***************************************************************************)
(* StoryContext (text_generator.py).  A context value is a record of the    *)
(* eight attributes; character_states, a dict in insertion order, is a      *)
(* sequence of records keyed by name.                                       *)
(***************************************************************************)
EmptyContext ==
    [story_summary |-> "", character_states |-> <<>>, plot_points |-> <<>>,
     themes_developed |-> <<>>, mood_progression |-> <<>>,
     key_locations |-> <<>>, story_tensions |-> <<>>, page_summaries |-> <<>>]

location_words == <<"garden", "house", "forest", "park", "school">>

action_indicators ==
    <<"decided", "found", "discovered", "learned", "helped", "shared", "gave",
      "asked">>

mood_indicators ==
    << [mood |-> "happy",
        indicators |-> <<"happy", "joy", "smile", "laugh", "excited", "cheerful">>],
       [mood |-> "sad",
        indicators |-> <<"sad", "cry", "worried", "upset", "disappointed">>],
       [mood |-> "curious",
        indicators |-> <<"wonder", "curious", "explore", "discover", "question">>],
       [mood |-> "determined",
        indicators |-> <<"decided", "determined", "tried", "worked", "effort">>],
       [mood |-> "peaceful",
        indicators |-> <<"calm", "peaceful", "quiet", "gentle", "serene">>] >>

tension_indicators ==
    <<"problem", "trouble", "worried", "afraid", "challenge", "difficult",
      "lost", "broke">>

SummaryLimit == 3

DescriptionLimit == 100

TensionLimit == 2

PageSummary(page_data) ==
    "Page " \o ToString(page_data.page_number) \o ": " \o page_data.scene_description

HasCharacter(states, name) == \E i \in 1..Len(states) : states[i].name = name

NewCharacterState(name, page_number) ==
    [name |-> name, first_appearance |-> page_number, interactions |-> <<>>,
     emotional_state |-> "neutral", location |-> "", key_attributes |-> <<>>]

\* SetLocation without the test of the name.
SetLocationOfAll(states, name, element) ==
    [i \in 1..Len(states) |-> [states[i] EXCEPT !.location = element]]

SetLocation(states, name, element) ==
    [i \in 1..Len(states) |->
        IF states[i].name = name THEN [states[i] EXCEPT !.location = element]
        ELSE states[i]]

\* The inner loop over visual_elements for one character; ctx is the context.
RECURSIVE VisitElements(_, _, _, _)
VisitElements(ctx, character, elements, k) ==
    IF k > Len(elements) THEN ctx
    ELSE LET element == elements[k]
         IN  IF AnyIn(location_words, Lower(element))
             THEN VisitElements(
                     [ctx EXCEPT
                        !.character_states = SetLocation(@, character, element),
                        !.key_locations =
                            IF SeqContains(@, element) THEN @ ELSE Append(@, element)],
                     character, elements, k + 1)
             ELSE VisitElements(ctx, character, elements, k + 1)

\* The loop over characters_present.
RECURSIVE VisitCharacters(_, _, _)
VisitCharacters(ctx, page_data, j) ==
    IF j > Len(page_data.characters_present) THEN ctx
    ELSE LET character == page_data.characters_present[j]
             known == IF HasCharacter(ctx.character_states, character) THEN ctx
                      ELSE [ctx EXCEPT !.character_states =
                               Append(@, NewCharacterState(character,
                                                           page_data.page_number))]
         IN  VisitCharacters(
                 VisitElements(known, character, page_data.visual_elements, 1),
                 page_data, j + 1)

\* Index of the first indicator found in text, 0 when there is none.
FirstIndicator(indicators, text) ==
    IF AnyIn(indicators, text)
    THEN CHOOSE i \in 1..Len(indicators) :
            /\ In(indicators[i], text)
            /\ \A j \in 1..(i - 1) : ~In(indicators[j], text)
    ELSE 0

TrackPlotPoints(ctx, page_data, page_text) ==
    LET idx == FirstIndicator(action_indicators, Lower(page_text))
    IN  IF page_text # "" /\ idx # 0
        THEN [ctx EXCEPT !.plot_points =
                 Append(@, [page |-> page_data.page_number,
                            action |-> action_indicators[idx],
                            description |-> Prefix(page_data.scene_description,
                                                   DescriptionLimit),
                            characters_involved |-> page_data.characters_present])]
        ELSE ctx

\* The loop over the plan's themes; the theme's words are matched as written.
RECURSIVE TrackThemes(_, _, _, _)
TrackThemes(ctx, book_themes, page_text, i) ==
    IF i > Len(book_themes) THEN ctx
    ELSE LET theme == book_themes[i]
         IN  IF /\ ~SeqContains(ctx.themes_developed, theme)
                /\ AnyIn(Split(theme), Lower(page_text))
             THEN TrackThemes([ctx EXCEPT !.themes_developed = Append(@, theme)],
                              book_themes, page_text, i + 1)
             ELSE TrackThemes(ctx, book_themes, page_text, i + 1)

CurrentMood(page_text) ==
    LET text == Lower(page_text)
        found == {m \in 1..Len(mood_indicators) :
                     AnyIn(mood_indicators[m].indicators, text)}
    IN  IF found # {}
        THEN mood_indicators[CHOOSE m \in found : \A n \in found : m <= n].mood
        ELSE "neutral"

\* TrackMood without the comparison with the last entry.
TrackMoodAlways(ctx, page_text) ==
    [ctx EXCEPT !.mood_progression = Append(@, CurrentMood(page_text))]

\* TrackMood keeping only the latest mood.
TrackMoodLatestOnly(ctx, page_text) ==
    [ctx EXCEPT !.mood_progression = <<CurrentMood(page_text)>>]

TrackMood(ctx, page_text) ==
    LET current_mood == CurrentMood(page_text)
        progression == ctx.mood_progression
    IN  IF progression = <<>> \/ progression[Len(progression)] # current_mood
        THEN [ctx EXCEPT !.mood_progression = Append(@, current_mood)]
        ELSE ctx

\* The loop over tension_indicators: the membership test is on the bare
\* indicator, the entry appended carries the page prefix.
RECURSIVE TrackTensions(_, _, _, _)
TrackTensions(ctx, page_number, page_text, i) ==
    IF i > Len(tension_indicators) THEN ctx
    ELSE LET indicator == tension_indicators[i]
         IN  IF /\ In(indicator, Lower(page_text))
                /\ ~SeqContains(ctx.story_tensions, indicator)
             THEN TrackTensions(
                     [ctx EXCEPT !.story_tensions =
                         Append(@, "Page " \o ToString(page_number) \o ": "
                                       \o indicator)],
                     page_number, page_text, i + 1)
             ELSE TrackTensions(ctx, page_number, page_text, i + 1)

\* Lines 49-79 of update_from_page, the part that does not read page_text.
SummariseAndVisit(ctx, page_data) ==
    LET summaries == Append(ctx.page_summaries, PageSummary(page_data))
        summarised == [ctx EXCEPT
                         !.page_summaries = summaries,
                         !.story_summary =
                             Join(" -> ", LastN(summaries, SummaryLimit))]
    IN  VisitCharacters(summarised, page_data, 1)

\* StoryContext.update_from_page
UpdateFromPage(ctx, page_data, generated_text, plan) ==
    LET page_text == generated_text.page_text
        characters == SummariseAndVisit(ctx, page_data)
        plotted == TrackPlotPoints(characters, page_data, page_text)
        themed == TrackThemes(plotted, plan.themes, page_text, 1)
        mooded == TrackMood(themed, page_text)
    IN  TrackTensions(mooded, page_data.page_number, page_text, 1)

CharacterSummary(state) ==
    state.name \o (IF state.location # "" THEN " (at " \o state.location \o ")"
                   ELSE "")

\* StoryContext.get_context_for_generation
GetContextForGeneration(ctx) ==
    LET context_parts ==
            (IF ctx.story_summary # ""
             THEN <<"Story so far: " \o ctx.story_summary>> ELSE <<>>)
         \o (IF ctx.character_states # <<>>
             THEN <<"Characters: " \o
                    Join(", ", [i \in 1..Len(ctx.character_states) |->
                                   CharacterSummary(ctx.character_states[i])])>>
             ELSE <<>>)
         \o (IF ctx.themes_developed # <<>>
             THEN <<"Themes established: " \o Join(", ", ctx.themes_developed)>>
             ELSE <<>>)
         \o (IF ctx.mood_progression # <<>>
             THEN <<"Current mood: " \o
                    ctx.mood_progression[Len(ctx.mood_progression)]>>
             ELSE <<>>)
         \o (IF ctx.story_tensions # <<>>
             THEN <<"Story tensions: " \o
                    Join("; ", LastN(ctx.story_tensions, TensionLimit))>>
             ELSE <<>>)
    IN  Join(" | ", context_parts)

(***************************************************************************)
(* StoryContext objects.  An instance is [story_summary, ref]: its string   *)
(* attribute and the heap cell holding its seven list/dict attributes.      *)
(* to_dict and from_dict hand the same list and dict objects on, so the     *)
(* instance from_dict(to_dict()) builds refers to the cell of its origin.   *)
(***************************************************************************)
Containers(ctx) ==
    [character_states |-> ctx.character_states, plot_points |-> ctx.plot_points,
     themes_developed |-> ctx.themes_developed,
     mood_progression |-> ctx.mood_progression,
     key_locations |-> ctx.key_locations, story_tensions |-> ctx.story_tensions,
     page_summaries |-> ctx.page_summaries]

\* The attribute values of instance obj in heap h.
ContextOf(obj, h) ==
    [story_summary |-> obj.story_summary,
     character_states |-> h[obj.ref].character_states,
     plot_points |-> h[obj.ref].plot_points,
     themes_developed |-> h[obj.ref].themes_developed,
     mood_progression |-> h[obj.ref].mood_progression,
     key_locations |-> h[obj.ref].key_locations,
     story_tensions |-> h[obj.ref].story_tensions,
     page_summaries |-> h[obj.ref].page_summaries]

\* StoryContext.to_dict
ToDict(obj) == [story_summary |-> obj.story_summary, containers |-> obj.ref]

\* from_dict leaving story_summary at the value __init__ gave it.
FromDictWithoutSummary(data) == [story_summary |-> "", ref |-> data.containers]

\* StoryContext.from_dict
FromDict(data) == [story_summary |-> data.story_summary, ref |-> data.containers]

(***************************************************************************)
(* TextGenerator.generate_page_text and generate_all_page_texts.            *)
(***************************************************************************)
\* Lines 249-258: the previous_context handed to the text model.
PreviousContext(ctx, prev_text) ==
    IF ctx.story_summary # "" \/ ctx.character_states # <<>>
    THEN IF prev_text # ""
         THEN "STORY CONTEXT: " \o GetContextForGeneration(ctx)
                  \o "\n\nPREVIOUS PAGE: " \o prev_text
         ELSE GetContextForGeneration(ctx)
    ELSE prev_text

\* Lines 272-277: the text data with its page metadata.
PageTextData(page_text, page_data) ==
    [page_text |-> page_text,
     page_metadata |-> [page_number |-> page_data.page_number,
                        page_type |-> page_data.page_type,
                        characters_present |-> page_data.characters_present]]

\* Lines 279-283: the instance returned, and the heap after its update.
UpdatedContext(obj, h, page_data, text_data, plan) ==
    LET updated_context == FromDict(ToDict(obj))
        after == UpdateFromPage(ContextOf(updated_context, h), page_data,
                                text_data, plan)
    IN  [context |-> [updated_context EXCEPT !.story_summary = after.story_summary],
         heap |-> [h EXCEPT ![updated_context.ref] = Containers(after)]]

\* generated_texts[page_number] = text_data
DictSet(dict, key, value) ==
    [k \in DOMAIN dict \cup {key} |-> IF k = key THEN value ELSE dict[k]]

MaxPages == 3

\* Pages of a book plan; page_number 0 is also what a page without the key gets.
PagePool ==
    { [page_number |-> 0, page_type |-> "cover", scene_description |-> "Cover art",
       characters_present |-> <<>>, visual_elements |-> <<>>],
      [page_number |-> 1, page_type |-> "story",
       scene_description |-> "Mia opens the gate",
       characters_present |-> <<"Mia">>, visual_elements |-> <<"Garden gate">>],
      [page_number |-> 2, page_type |-> "story",
       scene_description |-> "Leo waits",
       characters_present |-> <<"Mia", "Leo">>, visual_elements |-> <<"a kite">>] }

TextPlans ==
    { [themes |-> <<"friendship">>, pages |-> p] :
          p \in UNION {[1..n -> PagePool] : n \in 1..MaxPages} }

\* What the text model writes for a page.
PageTexts == {"Mia found a problem.", "Happy friendship"}

TextIdle ==
    /\ t_plan = [themes |-> <<>>, pages |-> <<>>]
    /\ t_idx = 0
    /\ heap = <<>>
    /\ story_context = [story_summary |-> "", ref |-> 0]
    /\ previous_page_text = ""
    /\ generated_texts = <<>>
    /\ text_calls = <<>>
    /\ t_pc = "idle"

\* Lines 300-304: the state when the loop over pages begins.
TextInit ==
    /\ t_plan \in TextPlans
    /\ t_idx = 1
    /\ heap = <<Containers(EmptyContext)>>
    /\ story_context = [story_summary |-> "", ref |-> 1]
    /\ previous_page_text = ""
    /\ generated_texts = <<>>
    /\ text_calls = <<>>
    /\ t_pc = "loop"

InLoop == t_pc = "loop" /\ t_idx <= Len(t_plan.pages)

\* The call made to openai_client.generate_page_text for the page at t_idx.
TextCall(returned, page_text) ==
    [page |-> t_idx,
     previous_context |->
         PreviousContext(ContextOf(story_context, heap), previous_page_text),
     context |-> ContextOf(story_context, heap),
     returned |-> returned,
     page_text |-> page_text]

\* Lines 311-313: a cover page is skipped.
SkipCover ==
    /\ InLoop
    /\ t_plan.pages[t_idx].page_type = "cover"
    /\ t_idx' = t_idx + 1
    /\ UNCHANGED <<t_plan, heap, story_context, previous_page_text,
                   generated_texts, text_calls, t_pc, exceptText>>

\* Lines 315-331: the text is generated, saved and recorded.
GeneratePageText ==
    /\ InLoop
    /\ t_plan.pages[t_idx].page_type # "cover"
    /\ \E page_text \in PageTexts :
          LET page_data == t_plan.pages[t_idx]
              text_data == PageTextData(page_text, page_data)
              updated == UpdatedContext(story_context, heap, page_data,
                                        text_data, t_plan)
          IN  /\ text_calls' = Append(text_calls, TextCall(TRUE, page_text))
              /\ story_context' = updated.context
              /\ heap' = updated.heap
              /\ previous_page_text' = text_data.page_text
              /\ generated_texts' =
                     DictSet(generated_texts, page_data.page_number, text_data)
    /\ t_idx' = t_idx + 1
    /\ UNCHANGED <<t_plan, t_pc, exceptText>>

\* Lines 316-322, 333-335: the text model's call raises (API error, or an
\* answer that is not JSON); the page is left and the loop goes on.
GeneratePageTextRaises ==
    /\ InLoop
    /\ t_plan.pages[t_idx].page_type # "cover"
    /\ text_calls' = Append(text_calls, TextCall(FALSE, ""))
    /\ t_idx' = t_idx + 1
    /\ UNCHANGED <<t_plan, heap, story_context, previous_page_text,
                   generated_texts, t_pc, exceptText>>

\* Lines 316-325, 333-335: the text is generated and story_context rebound,
\* then _save_page_text raises; the page is left and the loop goes on.
SavePageTextRaises ==
    /\ InLoop
    /\ t_plan.pages[t_idx].page_type # "cover"
    /\ \E page_text \in PageTexts :
          LET page_data == t_plan.pages[t_idx]
              text_data == PageTextData(page_text, page_data)
              updated == UpdatedContext(story_context, heap, page_data,
                                        text_data, t_plan)
          IN  /\ text_calls' = Append(text_calls, TextCall(TRUE, page_text))
              /\ story_context' = updated.context
              /\ heap' = updated.heap
    /\ t_idx' = t_idx + 1
    /\ UNCHANGED <<t_plan, previous_page_text, generated_texts, t_pc, exceptText>>

\* Lines 316-323, 334-336 with generate_page_text lines 261-281: the text
\* model answers an object whose page_text is not a string (a list, null).
\* update_from_page, working on the lists and the dict it shares with the
\* running context, appends the summary and visits the characters, then
\* raises at page_text.lower(); story_context is not rebound and the page is
\* left.  The call is recorded as one that handed no text back.
UpdateFromPageRaises ==
    /\ InLoop
    /\ t_plan.pages[t_idx].page_type # "cover"
    /\ LET updated_context == FromDict(ToDict(story_context))
           partly == SummariseAndVisit(ContextOf(updated_context, heap),
                                       t_plan.pages[t_idx])
       IN  heap' = [heap EXCEPT ![updated_context.ref] = Containers(partly)]
    /\ text_calls' = Append(text_calls, TextCall(FALSE, ""))
    /\ t_idx' = t_idx + 1
    /\ UNCHANGED <<t_plan, story_context, previous_page_text, generated_texts,
                   t_pc, exceptText>>

\* Lines 337-340: the final context is saved and the mapping returned.
SaveStoryContext ==
    /\ t_pc = "loop"
    /\ t_idx > Len(t_plan.pages)
    /\ t_pc' = "returned"
    /\ UNCHANGED <<t_plan, t_idx, heap, story_context, previous_page_text,
                   generated_texts, text_calls, exceptText>>

\* Line 338: _save_story_context raises, outside any try.
SaveStoryContextRaises ==
    /\ t_pc = "loop"
    /\ t_idx > Len(t_plan.pages)
    /\ t_pc' = "raised"
    /\ UNCHANGED <<t_plan, t_idx, heap, story_context, previous_page_text,
                   generated_texts, text_calls, exceptText>>

(***************************************************************************)
(* Claims about TextGenerator.generate_all_page_texts                       *)
(***************************************************************************)
\* Indices in the plan of the non-cover pages before index i, in plan order.
RECURSIVE UnitsBefore(_)
UnitsBefore(i) ==
    IF i <= 1 THEN <<>>
    ELSE UnitsBefore(i - 1) \o
         (IF t_plan.pages[i - 1].page_type # "cover" THEN <<i - 1>> ELSE <<>>)

\* The context after update_from_page for the first k calls that returned.
RECURSIVE ContextAfterCalls(_)
ContextAfterCalls(k) ==
    IF k = 0 THEN EmptyContext
    ELSE IF text_calls[k].returned
    THEN UpdateFromPage(ContextAfterCalls(k - 1), t_plan.pages[text_calls[k].page],
                        PageTextData(text_calls[k].page_text,
                                     t_plan.pages[text_calls[k].page]),
                        t_plan)
    ELSE ContextAfterCalls(k - 1)

\* C3: the previous_context handed to the text model for the i-th non-cover
\* page is the formatted StoryContext holding one update for every earlier
\* non-cover page 0..i-1, in plan order, and none for page i or a later one;
\* for the first non-cover page it is empty.
C3_ContextReflectsEveryEarlierUnit ==
    \A k \in 1..Len(text_calls) :
        LET call == text_calls[k]
            earlier == UnitsBefore(call.page)
        IN  /\ call.context.page_summaries =
                   [j \in 1..Len(earlier) |-> PageSummary(t_plan.pages[earlier[j]])]
            /\ call.context = ContextAfterCalls(k - 1)
            /\ \E prev_text \in PageTexts \cup {""} :
                   call.previous_context = PreviousContext(call.context, prev_text)
            /\ (earlier = <<>> => call.previous_context = "")

\* C10: a page whose generation fails does not end the sequence, every later
\* non-cover page is still attempted in order, and the mapping returned has an
\* entry for every non-cover page of the plan.
C10_EveryPageHasAnEntry ==
    /\ t_pc \in {"returned", "raised"} =>
           [k \in 1..Len(text_calls) |-> text_calls[k].page]
               = UnitsBefore(Len(t_plan.pages) + 1)
    /\ t_pc = "returned" =>
           \A i \in 1..Len(t_plan.pages) :
               t_plan.pages[i].page_type # "cover" =>
                   t_plan.pages[i].page_number \in DOMAIN generated_texts

\* The attributes of the running context of generate_all_page_texts.
RunningContext == ContextOf(story_context, heap)

IsPrefix(a, b) == Len(a) <= Len(b) /\ SubSeq(b, 1, Len(a)) = a

\* C19: every step of generate_all_page_texts, a unit that failed included,
\* leaves the earlier contents of the running context's page_summaries,
\* plot_points, themes_developed, mood_progression, key_locations and
\* story_tensions as a prefix of their new contents: what update_from_page
\* appended is never taken back and the context is never reset.
C19_ListsOnlyGrow ==
    [][/\ IsPrefix(RunningContext.page_summaries, RunningContext'.page_summaries)
       /\ IsPrefix(RunningContext.plot_points, RunningContext'.plot_points)
       /\ IsPrefix(RunningContext.themes_developed,
                   RunningContext'.themes_developed)
       /\ IsPrefix(RunningContext.mood_progression,
                   RunningContext'.mood_progression)
       /\ IsPrefix(RunningContext.key_locations, RunningContext'.key_locations)
       /\ IsPrefix(RunningContext.story_tensions,
                   RunningContext'.story_tensions)]_vars

\* C19 witness: a unit failed, a later unit was generated, and the context
\* holds two moods and a tension.
C19_Witness ==
    /\ t_pc = "returned"
    /\ \E j, k \in 1..Len(text_calls) :
           j < k /\ ~text_calls[j].returned /\ text_calls[k].returned
    /\ Len(RunningContext.mood_progression) = 2
    /\ RunningContext.story_tensions # <<>>

\* The page summaries of the units whose text was generated, in call order.
RECURSIVE GeneratedSummaries(_)
GeneratedSummaries(k) ==
    IF k = 0 THEN <<>>
    ELSE GeneratedSummaries(k - 1) \o
         (IF text_calls[k].returned
          THEN <<PageSummary(t_plan.pages[text_calls[k].page])>> ELSE <<>>)

\* C20: update_from_page is applied once for each unit whose text was
\* generated, in plan order, and never for a cover page or a unit whose
\* generation failed: at the end page_summaries holds one entry per
\* generated unit, in that order, and nothing else.
C20_OneUpdatePerGeneratedUnit ==
    t_pc \in {"returned", "raised"} =>
        RunningContext.page_summaries = GeneratedSummaries(Len(text_calls))

\* C27: generate_page_text does not modify the StoryContext passed to it: when
\* the call has returned, every attribute of the input context (story_summary,
\* character_states, plot_points, themes_developed, mood_progression,
\* key_locations, story_tensions, page_summaries) has the value it had before
\* the call, and only the returned context holds the new unit.
C27_InputContextUnchanged ==
    [][ (/\ Len(text_calls') = Len(text_calls) + 1
         /\ text_calls'[Len(text_calls')].returned)
            => ContextOf(story_context, heap') = ContextOf(story_context, heap)
      ]_vars

(***************************************************************************)
(* ImageGenerator (image_generator.py): generate_all_page_images on a       *)
(* newly constructed generator.                                             *)
(***************************************************************************)
\* Python's None, where a path is expected.
None == "None"

\* ideogram_client.py line 260: f"page_{page_number:02d}.png"
PagePath(page_number) ==
    "page_" \o (IF page_number < 10 THEN "0" ELSE "") \o ToString(page_number)
        \o ".png"

\* ideogram_client.py line 361
CoverPath == "cover.png"

ImagePlans ==
    { [pages |-> p, include_cover |-> c] :
          p \in UNION {[1..n -> PagePool] : n \in 1..MaxPages}, c \in BOOLEAN }

ImageIdle ==
    /\ i_plan = [pages |-> <<>>, include_cover |-> FALSE]
    /\ i_idx = 0
    /\ reference_image_path = None
    /\ generated_images = <<>>
    /\ image_requests = <<>>
    /\ i_pc = "idle"

\* Line 37 and lines 196-199.
ImageInit ==
    /\ i_plan \in ImagePlans
    /\ i_idx = 1
    /\ reference_image_path = None
    /\ generated_images = <<>>
    /\ image_requests = <<>>
    /\ i_pc = "cover"

\* A request made to the image service: what it was for, the style reference
\* it was given, the path it returned (None when it raised) and whether the
\* file of that path exists.
ImageRequest(kind, page, result, exists) ==
    [kind |-> kind, page |-> page, reference |-> reference_image_path,
     result |-> result, exists |-> exists]

\* Lines 202-206: the cover is generated, before any page.
GenerateBookCover ==
    /\ i_pc = "cover"
    /\ i_plan.include_cover
    /\ image_requests' =
           Append(image_requests, ImageRequest("cover", 0, CoverPath, TRUE))
    /\ generated_images' = DictSet(generated_images, 0, CoverPath)
    /\ i_pc' = "loop"
    /\ UNCHANGED <<i_plan, i_idx, reference_image_path, exceptImage>>

\* Lines 202-208: the cover request raises.
GenerateBookCoverRaises ==
    /\ i_pc = "cover"
    /\ i_plan.include_cover
    /\ image_requests' =
           Append(image_requests, ImageRequest("cover", 0, None, FALSE))
    /\ i_pc' = "loop"
    /\ UNCHANGED <<i_plan, i_idx, reference_image_path, generated_images,
                   exceptImage>>

\* Line 202: include_cover is False.
NoBookCover ==
    /\ i_pc = "cover"
    /\ ~i_plan.include_cover
    /\ i_pc' = "loop"
    /\ UNCHANGED <<i_plan, i_idx, reference_image_path, generated_images,
                   image_requests, exceptImage>>

InImageLoop == i_pc = "loop" /\ i_idx <= Len(i_plan.pages)

\* The page at i_idx gets a request of its own.
PageRequested ==
    /\ InImageLoop
    /\ ~(i_plan.pages[i_idx].page_type = "cover" /\ i_plan.include_cover)

\* Lines 215-217: the cover page is skipped when the cover was requested.
SkipCoverPage ==
    /\ InImageLoop
    /\ i_plan.pages[i_idx].page_type = "cover" /\ i_plan.include_cover
    /\ i_idx' = i_idx + 1
    /\ UNCHANGED <<i_plan, reference_image_path, generated_images,
                   image_requests, i_pc, exceptImage>>

\* Lines 219-227 with generate_page_image lines 109-140: the request returns
\* a path; the reference is set when there is none yet and the file exists.
GeneratePageImage ==
    /\ PageRequested
    /\ \E exists \in BOOLEAN :
          LET image_path == PagePath(i_plan.pages[i_idx].page_number)
          IN  /\ image_requests' =
                     Append(image_requests,
                            ImageRequest("page", i_idx, image_path, exists))
              /\ reference_image_path' =
                     IF reference_image_path = None /\ exists THEN image_path
                     ELSE reference_image_path
              /\ generated_images' =
                     DictSet(generated_images, i_plan.pages[i_idx].page_number,
                             image_path)
    /\ i_idx' = i_idx + 1
    /\ UNCHANGED <<i_plan, i_pc, exceptImage>>

\* Lines 219-231 with generate_page_image lines 125-133: the request raises.
GeneratePageImageRaises ==
    /\ PageRequested
    /\ image_requests' =
           Append(image_requests, ImageRequest("page", i_idx, None, FALSE))
    /\ i_idx' = i_idx + 1
    /\ UNCHANGED <<i_plan, reference_image_path, generated_images, i_pc,
                   exceptImage>>

\* Lines 219-231 with generate_page_image lines 109-120: building or saving
\* the image prompt raises, before any request is made.
GenerateImagePromptRaises ==
    /\ PageRequested
    /\ i_idx' = i_idx + 1
    /\ UNCHANGED <<i_plan, reference_image_path, generated_images,
                   image_requests, i_pc, exceptImage>>

\* Line 233.
ReturnGeneratedImages ==
    /\ i_pc = "loop"
    /\ i_idx > Len(i_plan.pages)
    /\ i_pc' = "returned"
    /\ UNCHANGED <<i_plan, i_idx, reference_image_path, generated_images,
                   image_requests, exceptImage>>

(***************************************************************************)
(* Claims about ImageGenerator                                              *)
(***************************************************************************)
\* A page-image request that returned a path whose file exists.
Succeeded(request) ==
    request.kind = "page" /\ request.result # None /\ request.exists

\* Position of the first page-image request that succeeded, 0 when none did.
FirstSuccess ==
    IF \E k \in 1..Len(image_requests) : Succeeded(image_requests[k])
    THEN CHOOSE k \in 1..Len(image_requests) :
            /\ Succeeded(image_requests[k])
            /\ \A j \in 1..(k - 1) : ~Succeeded(image_requests[j])
    ELSE 0

\* C4: the path of the first page-image request that succeeds becomes
\* reference_image_path and is never replaced; requests made before it get no
\* reference, requests made after it get exactly that path, and the cover is
\* one of the requests that get it.
C4_FirstSuccessIsTheReference ==
    LET first == FirstSuccess
        path == IF first = 0 THEN None ELSE image_requests[first].result
    IN  /\ reference_image_path = path
        /\ \A k \in 1..Len(image_requests) :
               image_requests[k].reference =
                   IF first # 0 /\ k > first THEN path ELSE None
        /\ \A k \in 1..Len(image_requests) :
               image_requests[k].kind = "cover" /\ first # 0 =>
                   image_requests[k].reference = path

(***************************************************************************)
(* ImpaginatorAgent.create_book_pdf (impaginator_agent.py).                 *)
(***************************************************************************)
\* str.replace(' ', '_')
RECURSIVE ReplaceSpaces(_)
ReplaceSpaces(s) ==
    IF s = "" THEN ""
    ELSE (IF SubSeq(s, 1, 1) = " " THEN "_" ELSE SubSeq(s, 1, 1))
             \o ReplaceSpaces(SubSeq(s, 2, Len(s)))

\* image_creator_agent.py lines 116-119: the file an image is written to.
ImageFilename(placeholder_id, unique_suffix) ==
    Lower(ReplaceSpaces(placeholder_id)) \o "_" \o unique_suffix \o ".png"

\* A GeneratedImage (data_models/generated_image.py); exists tells whether the
\* file of image_path is on disk.
GeneratedImage(placeholder_id, exists) ==
    [placeholder_id |-> placeholder_id, prompt_used |-> "prompt",
     image_path |-> ImageFilename(placeholder_id, "0a1b2c"),
     error_message |-> None, exists |-> exists]

\* The story texts the compositor is given the parsed chapters of: the
\* fallback text of a plan, and a text with a marker inside its prose, a
\* marker alone in its paragraph and a blank paragraph.
StoryTexts ==
    { FallbackBookText([title |-> "Book", chapters |-> <<o>>]) :
          o \in {o \in ChapterOutlines : o.title = "Dawn"} }
    \cup
    { FallbackBookText([title |-> "Book", chapters |-> <<o1, o2>>]) :
          o1 \in {o \in ChapterOutlines : o.title = "Dawn"},
          o2 \in {o \in ChapterOutlines : o.title = "Dusk"} }
    \cup
    { <<Hdr("1"), Word("Dawn"), NL, Word("Mia woke"), Marker("a red door"),
        Word("and ran"), NL, NL, Marker("the sky"), NL, Word("The end")>> }

\* StoryWriterAgent.write_story lines 92-159 for a given text.
StoryContentOf(text) ==
    [book_plan |-> [title |-> "My Book"],
     chapters_content |->
         IF ChapterMatches(text) # <<>> THEN ParseChapters(text)
         ELSE ParseSingleChapter(text, [title |-> "My Book"])]

\* Per expected id: an image whose file exists, one whose file does not, none.
ImageOutcomes == {"file", "nofile", "absent"}

\* The ids create_images is to deliver, placeholders first and the cover last.
ExpectedIds(story) ==
    [i \in 1..Len(AllImagePlaceholders(story.chapters_content)) |->
        AllImagePlaceholders(story.chapters_content)[i].id] \o <<"cover">>

RECURSIVE ImagesFor(_, _, _)
ImagesFor(ids, outcome, i) ==
    IF i > Len(ids) THEN <<>>
    ELSE (IF outcome[i] = "absent" THEN <<>>
          ELSE <<GeneratedImage(ids[i], outcome[i] = "file")>>)
             \o ImagesFor(ids, outcome, i + 1)

ImpaginatorIdle ==
    /\ p_story = [book_plan |-> [title |-> ""], chapters_content |-> <<>>]
    /\ p_images = <<>>
    /\ image_map = <<>>
    /\ html_cover_path = None
    /\ book_chapters = <<>>
    /\ p_idx = 0
    /\ p_result = None
    /\ p_pc = "idle"

ImpaginatorInit ==
    /\ p_story \in {StoryContentOf(text) : text \in StoryTexts}
    /\ \E outcome \in [1..Len(ExpectedIds(p_story)) -> ImageOutcomes] :
           p_images = ImagesFor(ExpectedIds(p_story), outcome, 1)
    /\ image_map = <<>>
    /\ html_cover_path = None
    /\ book_chapters = <<>>
    /\ p_idx = 1
    /\ p_result = None
    /\ p_pc = "copy"

\* os.path.join("images", os.path.basename(img.image_path))
HtmlImagePath(image_path) == "images/" \o image_path

\* Lines 73-79: the loop filling image_map.
RECURSIVE CopyImagesFrom(_, _, _)
CopyImagesFrom(images, map, i) ==
    IF i > Len(images) THEN map
    ELSE IF images[i].image_path # "" /\ images[i].exists
    THEN CopyImagesFrom(images,
                        DictSet(map, images[i].placeholder_id,
                                HtmlImagePath(images[i].image_path)),
                        i + 1)
    ELSE CopyImagesFrom(images, map, i + 1)

\* book_creation_workflow.py lines 301-305: the images that can be the cover.
CoverImages(images) ==
    SelectSeq(images, LAMBDA img :
        /\ img.placeholder_id = "cover"
        /\ img.image_path # ""
        /\ img.error_message = None)

\* book_creation_workflow.py line 306: the cover_image_path argument.
CoverImagePath(images) ==
    IF CoverImages(images) = <<>> THEN None
    ELSE CoverImages(images)[1].image_path

\* Lines 81-87: the cover is copied when its file exists.
HtmlCoverPath(images) ==
    IF CoverImages(images) # <<>> /\ CoverImages(images)[1].exists
    THEN HtmlImagePath(CoverImagePath(images))
    ELSE None

\* str.split("\n\n") of a chapter text
RECURSIVE SplitParagraphsFrom(_, _)
SplitParagraphsFrom(text, para) ==
    IF text = <<>> THEN <<para>>
    ELSE IF IsNL(Head(text))
    THEN <<para>> \o SplitParagraphsFrom(Tail(text), <<>>)
    ELSE SplitParagraphsFrom(Tail(text), Append(para, Head(text)))

SplitParagraphs(text) == SplitParagraphsFrom(text, <<>>)

\* re.split(r'\[IMAGE: .*?\]', para_text)
RECURSIVE SplitAtMarkersFrom(_, _)
SplitAtMarkersFrom(text, part) ==
    IF text = <<>> THEN <<part>>
    ELSE IF IsMarker(Head(text))
    THEN <<part>> \o SplitAtMarkersFrom(Tail(text), <<>>)
    ELSE SplitAtMarkersFrom(Tail(text), Append(part, Head(text)))

SplitAtMarkers(text) == SplitAtMarkersFrom(text, <<>>)

\* " ".join(parts), and re.sub(r'\[IMAGE: .*?\]', '', para_text)
WithoutMarkers(text) == SelectSeq(text, LAMBDA t : ~IsMarker(t))

TextBlock(content, para_idx) ==
    [type |-> "text", content |-> content, image_path |-> None,
     image_position |-> "", decorative_border |-> (para_idx % 5 = 0)]

ImageBlock(path) ==
    [type |-> "image", content |-> <<>>, image_path |-> path,
     image_position |-> "", decorative_border |-> FALSE]

TextWithImageBlock(content, path, para_idx) ==
    [type |-> "text_with_image", content |-> content, image_path |-> path,
     image_position |-> IF para_idx % 2 = 0 THEN "right" ELSE "left",
     decorative_border |-> FALSE]

RECURSIVE TextBlocksOf(_, _)
TextBlocksOf(parts, para_idx) ==
    IF parts = <<>> THEN <<>>
    ELSE (IF Head(parts) # <<>> THEN <<TextBlock(Head(parts), para_idx)>>
          ELSE <<>>) \o TextBlocksOf(Tail(parts), para_idx)

\* Lines 121-167: the content blocks of one paragraph; para_idx counts from 0.
ParagraphBlocks(para_text, para_idx, map) ==
    IF para_text = <<>> THEN <<>>
    ELSE IF FindMarkers(para_text) # <<>>
    THEN LET placeholder_id == FindMarkers(para_text)[1]
             parts == SplitAtMarkers(para_text)
         IN  IF placeholder_id \in DOMAIN map
             THEN IF Len(parts) > 1 /\ parts[1] # <<>> /\ parts[2] # <<>>
                  THEN <<TextWithImageBlock(WithoutMarkers(para_text),
                                            map[placeholder_id], para_idx)>>
                  ELSE TextBlocksOf(parts, para_idx)
                           \o <<ImageBlock(map[placeholder_id])>>
             ELSE <<TextBlock(WithoutMarkers(para_text), para_idx)>>
    ELSE <<TextBlock(para_text, para_idx)>>

RECURSIVE ChapterBlocks(_, _, _)
ChapterBlocks(paragraphs, para_idx, map) ==
    IF para_idx >= Len(paragraphs) THEN <<>>
    ELSE ParagraphBlocks(paragraphs[para_idx + 1], para_idx, map)
             \o ChapterBlocks(paragraphs, para_idx + 1, map)

\* Lines 188-189: the file name of the PDF.
PdfPath(title) == Lower(ReplaceSpaces(title)) \o "_book.pdf"

\* Line 199
ErrorMessage(e) == "ImpaginatorAgent: Error building PDF: " \o e

\* Lines 64-79: the directories are made and the images copied.
CopyImages ==
    /\ p_pc = "copy"
    /\ image_map' = CopyImagesFrom(p_images, <<>>, 1)
    /\ html_cover_path' = HtmlCoverPath(p_images)
    /\ p_pc' = "chapters"
    /\ UNCHANGED <<p_story, p_images, book_chapters, p_idx, p_result,
                   exceptImpaginator>>

\* Lines 64-87, 198-201: making a directory or copying a file raises.
CopyImagesRaises ==
    /\ p_pc = "copy"
    /\ p_result' = ErrorMessage("[Errno 13] Permission denied")
    /\ p_pc' = "returned"
    /\ UNCHANGED <<p_story, p_images, image_map, html_cover_path,
                   book_chapters, p_idx, exceptImpaginator>>

\* Lines 113-169: one chapter's content blocks.
ProcessChapter ==
    /\ p_pc = "chapters"
    /\ p_idx <= Len(p_story.chapters_content)
    /\ LET chapter == p_story.chapters_content[p_idx]
       IN  book_chapters' =
               Append(book_chapters,
                      [title |-> chapter.title,
                       content_blocks |->
                           ChapterBlocks(SplitParagraphs(chapter.text_markdown),
                                         0, image_map)])
    /\ p_idx' = p_idx + 1
    /\ UNCHANGED <<p_story, p_images, image_map, html_cover_path, p_result,
                   p_pc, exceptImpaginator>>

\* Lines 171-196: the template is rendered and the PDF written.
RenderPdf ==
    /\ p_pc = "chapters"
    /\ p_idx > Len(p_story.chapters_content)
    /\ p_result' = PdfPath(p_story.book_plan.title)
    /\ p_pc' = "returned"
    /\ UNCHANGED <<p_story, p_images, image_map, html_cover_path,
                   book_chapters, p_idx, exceptImpaginator>>

\* Lines 171-201: rendering or writing raises; the message is returned.
RenderPdfRaises ==
    /\ p_pc = "chapters"
    /\ p_idx > Len(p_story.chapters_content)
    /\ p_result' = ErrorMessage("book.html")
    /\ p_pc' = "returned"
    /\ UNCHANGED <<p_story, p_images, image_map, html_cover_path,
                   book_chapters, p_idx, exceptImpaginator>>

(***************************************************************************)
(* Claims about ImpaginatorAgent.create_book_pdf                            *)
(***************************************************************************)
RECURSIVE AllContentBlocks(_)
AllContentBlocks(chapters) ==
    IF chapters = <<>> THEN <<>>
    ELSE Head(chapters).content_blocks \o AllContentBlocks(Tail(chapters))

\* The block shows the image of placeholder id.  The code builds no other
\* kind of block for a placeholder: there is no stand-in block.
ReferencesPlaceholder(block, id) ==
    /\ block.type \in {"image", "text_with_image"}
    /\ id \in DOMAIN image_map
    /\ block.image_path = image_map[id]

AllChaptersProcessed ==
    p_pc \in {"chapters", "returned"} /\ p_idx > Len(p_story.chapters_content)

\* C5: once every chapter is processed, each placeholder of
\* story_content.all_image_placeholders is referenced by exactly one content
\* block, also when its paragraph holds several markers and when it has no
\* entry in the image map.
C5_EveryPlaceholderHasOneBlock ==
    AllChaptersProcessed =>
        \A i \in 1..Len(AllImagePlaceholders(p_story.chapters_content)) :
            LET id == AllImagePlaceholders(p_story.chapters_content)[i].id
            IN  Len(SelectSeq(AllContentBlocks(book_chapters),
                              LAMBDA b : ReferencesPlaceholder(b, id))) = 1

(***************************************************************************)
(* ImageCreatorAgent.create_images (image_creator_agent.py).                *)
(***************************************************************************)
PromptLimit == 4000

\* Lines 121-126: the prompt sent to the image model.
EnhancedPrompt(prompt, style_guide) ==
    LET enhanced_prompt == prompt \o ". Style: " \o style_guide
    IN  IF Len(enhanced_prompt) > PromptLimit
        THEN SubSeq(enhanced_prompt, 1, PromptLimit - 3) \o "..."
        ELSE enhanced_prompt

\* The book plans handed to create_images: style guide and cover concept.
CreatorPlans ==
    { [image_style_guide |-> "watercolor", cover_concept |-> "Mia at the gate"] }

\* Line 47
DalleModels == {"dall-e-3"}

DefaultSize == "1024x1024"

\* Lines 264-267: the size the cover is requested in.
CoverSize(model, original_size) ==
    IF model = "dall-e-3" THEN "1024x1792" ELSE original_size

CreatorIdle ==
    /\ c_story = [book_plan |-> [title |-> ""], chapters_content |-> <<>>]
    /\ c_plan = [image_style_guide |-> "", cover_concept |-> ""]
    /\ dalle_model = ""
    /\ c_idx = 0
    /\ c_images = <<>>
    /\ creator_requests = <<>>
    /\ c_pc = "idle"

\* Lines 242-243.
CreatorInit ==
    /\ c_story \in {StoryContentOf(text) : text \in StoryTexts}
    /\ c_plan \in CreatorPlans
    /\ dalle_model \in DalleModels
    /\ c_idx = 1
    /\ c_images = <<>>
    /\ creator_requests = <<>>
    /\ c_pc = "placeholders"

\* A call of the image model made by _generate_single_image.
CreatorRequest(placeholder_id, prompt, size, generated) ==
    [placeholder_id |-> placeholder_id,
     prompt |-> EnhancedPrompt(prompt, c_plan.image_style_guide),
     size |-> size, generated |-> generated]

\* Lines 130-162: the image is generated, downloaded and saved.
DalleImage(placeholder_id, prompt, unique_suffix) ==
    [placeholder_id |-> placeholder_id,
     prompt_used |-> EnhancedPrompt(prompt, c_plan.image_style_guide),
     image_path |-> ImageFilename(placeholder_id, unique_suffix),
     error_message |-> None, exists |-> TRUE]

\* Lines 187-225: the grey stand-in image drawn by _create_fallback_image.
FallbackImage(placeholder_id, prompt, unique_suffix) ==
    [placeholder_id |-> placeholder_id, prompt_used |-> prompt,
     image_path |-> ImageFilename(placeholder_id, unique_suffix),
     error_message |-> None, exists |-> TRUE]

\* uuid.uuid4().hex[:6]
UniqueSuffixes == {"0a1b2c"}

AtPlaceholder ==
    /\ c_pc = "placeholders"
    /\ c_idx <= Len(AllImagePlaceholders(c_story.chapters_content))

AtCover ==
    /\ c_pc = "placeholders"
    /\ c_idx > Len(AllImagePlaceholders(c_story.chapters_content))

\* Lines 246-255 with 130-162: the placeholder's image is generated.
CreatePlaceholderImage ==
    /\ AtPlaceholder
    /\ \E unique_suffix \in UniqueSuffixes :
          LET placeholder == AllImagePlaceholders(c_story.chapters_content)[c_idx]
          IN  /\ creator_requests' =
                     Append(creator_requests,
                            CreatorRequest(placeholder.id, placeholder.description,
                                           DefaultSize, TRUE))
              /\ c_images' =
                     Append(c_images,
                            DalleImage(placeholder.id, placeholder.description,
                                       unique_suffix))
    /\ c_idx' = c_idx + 1
    /\ UNCHANGED <<c_story, c_plan, dalle_model, c_pc, exceptCreator>>

\* Lines 246-255 with 164-169, 187-225: generation raises, the fallback image
\* is drawn.
CreatePlaceholderFallback ==
    /\ AtPlaceholder
    /\ \E unique_suffix \in UniqueSuffixes :
          LET placeholder == AllImagePlaceholders(c_story.chapters_content)[c_idx]
          IN  /\ creator_requests' =
                     Append(creator_requests,
                            CreatorRequest(placeholder.id, placeholder.description,
                                           DefaultSize, FALSE))
              /\ c_images' =
                     Append(c_images,
                            FallbackImage(placeholder.id, placeholder.description,
                                          unique_suffix))
    /\ c_idx' = c_idx + 1
    /\ UNCHANGED <<c_story, c_plan, dalle_model, c_pc, exceptCreator>>

\* Lines 246-255 with 164-169, 227-229: generation raises and drawing the
\* fallback image raises too; _generate_single_image returns None and nothing
\* is appended.
CreatePlaceholderFails ==
    /\ AtPlaceholder
    /\ LET placeholder == AllImagePlaceholders(c_story.chapters_content)[c_idx]
       IN  creator_requests' =
               Append(creator_requests,
                      CreatorRequest(placeholder.id, placeholder.description,
                                     DefaultSize, FALSE))
    /\ c_idx' = c_idx + 1
    /\ UNCHANGED <<c_story, c_plan, dalle_model, c_images, c_pc, exceptCreator>>

\* Lines 257-279 with 130-162: the cover is generated and the list returned.
CreateCoverImage ==
    /\ AtCover
    /\ \E unique_suffix \in UniqueSuffixes :
          /\ creator_requests' =
                 Append(creator_requests,
                        CreatorRequest("cover", c_plan.cover_concept,
                                       CoverSize(dalle_model, DefaultSize), TRUE))
          /\ c_images' =
                 Append(c_images,
                        DalleImage("cover", c_plan.cover_concept, unique_suffix))
    /\ c_pc' = "returned"
    /\ UNCHANGED <<c_story, c_plan, dalle_model, c_idx, exceptCreator>>

\* Lines 257-279 with 164-169, 187-225: the cover falls back.
CreateCoverFallback ==
    /\ AtCover
    /\ \E unique_suffix \in UniqueSuffixes :
          /\ creator_requests' =
                 Append(creator_requests,
                        CreatorRequest("cover", c_plan.cover_concept,
                                       CoverSize(dalle_model, DefaultSize), FALSE))
          /\ c_images' =
                 Append(c_images,
                        FallbackImage("cover", c_plan.cover_concept, unique_suffix))
    /\ c_pc' = "returned"
    /\ UNCHANGED <<c_story, c_plan, dalle_model, c_idx, exceptCreator>>

\* Lines 257-279 with 164-169, 227-229: no cover image at all.
CreateCoverFails ==
    /\ AtCover
    /\ creator_requests' =
           Append(creator_requests,
                  CreatorRequest("cover", c_plan.cover_concept,
                                 CoverSize(dalle_model, DefaultSize), FALSE))
    /\ c_pc' = "returned"
    /\ UNCHANGED <<c_story, c_plan, dalle_model, c_idx, c_images, exceptCreator>>

(***************************************************************************)
(* Claims about ImageCreatorAgent.create_images                             *)
(***************************************************************************)
\* C6: whatever generations and fallback drawings fail, the list returned
\* holds exactly one GeneratedImage for each id of all_image_placeholders and
\* one for "cover", and nothing else.
C6_OneImagePerExpectedId ==
    c_pc = "returned" =>
        /\ Len(c_images) = Len(ExpectedIds(c_story))
        /\ \A i \in 1..Len(ExpectedIds(c_story)) :
               Len(SelectSeq(c_images, LAMBDA img :
                       img.placeholder_id = ExpectedIds(c_story)[i])) = 1

\* C11: both image pipelines issue the cover request last: in create_images
\* and in generate_all_page_images every placeholder or page request comes
\* before the cover request.
C11_CoverRequestIsLast ==
    /\ \A k, j \in 1..Len(creator_requests) :
           (creator_requests[k].placeholder_id = "cover"
                /\ creator_requests[j].placeholder_id # "cover") => j < k
    /\ \A k, j \in 1..Len(image_requests) :
           (image_requests[k].kind = "cover" /\ image_requests[j].kind = "page")
               => j < k

\* BookCreationWorkflow._save_image_log, lines 388-390: one line per image,
\* f"Placeholder ID: {..}, Path: {..}, Error: {..}"; str(None) is "None".
ImageLogLines(images) ==
    [k \in 1..Len(images) |->
        [placeholder_id |-> images[k].placeholder_id,
         path |-> images[k].image_path,
         error |-> images[k].error_message]]

\* C25: whenever the generation call for a placeholder fails and a fallback
\* image is substituted, the GeneratedImage of that placeholder carries a
\* non-empty error_message and the image log shows that error for its id.
C25_FallbackRecordsTheFailure ==
    \A r \in 1..Len(creator_requests) :
        \A k \in 1..Len(c_images) :
            (/\ ~creator_requests[r].generated
             /\ c_images[k].placeholder_id = creator_requests[r].placeholder_id) =>
                /\ c_images[k].error_message \notin {None, ""}
                /\ ImageLogLines(c_images)[k].placeholder_id
                       = creator_requests[r].placeholder_id
                /\ ImageLogLines(c_images)[k].error \notin {None, ""}

(***************************************************************************)
(* PDFGenerator (pdf_generator.py): _create_alternating_layout_pdf and      *)
(* _generate_alternating_html_content.                                      *)
(***************************************************************************)
UpperChar(c) ==
    IF \E i \in 1..Len(LowerCase) : SubSeq(LowerCase, i, i) = c
    THEN LET i == CHOOSE j \in 1..Len(LowerCase) : SubSeq(LowerCase, j, j) = c
         IN  SubSeq(UpperCase, i, i)
    ELSE c

\* str.upper()
RECURSIVE Upper(_)
Upper(s) ==
    IF s = "" THEN ""
    ELSE UpperChar(SubSeq(s, 1, 1)) \o Upper(SubSeq(s, 2, Len(s)))

\* sorted(pages, key=page_number): insert page behind every page whose number
\* is not greater (the sort is stable).
RECURSIVE InsertByPageNumber(_, _)
InsertByPageNumber(sorted, page) ==
    IF sorted = <<>> THEN <<page>>
    ELSE IF page.page_number < Head(sorted).page_number
    THEN <<page>> \o sorted
    ELSE <<Head(sorted)>> \o InsertByPageNumber(Tail(sorted), page)

RECURSIVE SortedPages(_)
SortedPages(pages) ==
    IF pages = <<>> THEN <<>>
    ELSE InsertByPageNumber(SortedPages(SubSeq(pages, 1, Len(pages) - 1)),
                            pages[Len(pages)])

\* Image files by page number: the path, and whether its file is on disk
\* (the cover's file, when there is one, is on disk).
PageImageMaps ==
    { m \in UNION { [d -> {[path |-> "img.png", exists |-> TRUE],
                           [path |-> "img.png", exists |-> FALSE]}] :
                      d \in SUBSET {0, 1, 2} } :
          0 \in DOMAIN m => m[0].exists }

\* Text data by page number; the text of page 2 may be the empty string.
PageTextMaps ==
    { m \in UNION { [d -> {[page_text |-> "Mia found a problem."],
                           [page_text |-> ""]}] : d \in SUBSET {1, 2} } :
          1 \in DOMAIN m => m[1].page_text # "" }

Layouts == {"pdf", "html"}

PdfIdle ==
    /\ f_layout = ""
    /\ f_pages = <<>>
    /\ page_images = <<>>
    /\ page_texts = <<>>
    /\ f_idx = 0
    /\ pdf_page_number = 0
    /\ output_pages = <<>>
    /\ f_pc = "idle"

\* pdf lines 93-101, html lines 485-489 and 524: the plan's pages sorted and
\* the page counter at 1.
PdfInit ==
    /\ f_layout \in Layouts
    /\ \E pages \in UNION {[1..n -> PagePool] : n \in 1..MaxPages} :
           f_pages = SortedPages(pages)
    /\ page_images \in PageImageMaps
    /\ page_texts \in PageTextMaps
    /\ f_idx = 1
    /\ pdf_page_number = 1
    /\ output_pages = <<>>
    /\ f_pc = "cover"

\* A page of the output: what it is, the plan page it stands for, what is
\* drawn on it ("" for an empty page), the number printed on it (0: none) and
\* the number the generator gave it (0: none).
OutputPage(kind, page_number, content, number, given) ==
    [kind |-> kind, page_number |-> page_number, content |-> content,
     number |-> number, pdf_page_number |-> given]

\* Lines 135-163: the cover page; the image is drawn when its file exists.
CoverPage(image, number) ==
    OutputPage("cover", 0, IF image.exists THEN image.path ELSE "", 0, number)

\* Lines 165-205: an image page; an empty page when the file is missing.
ImagePage(page_number, image, number) ==
    OutputPage("image", page_number, IF image.exists THEN image.path ELSE "", 0,
               number)

\* Lines 264-343: a text page in capitals with its number; an empty page
\* when the text is empty.
TextPage(page_number, text_data, number) ==
    IF Upper(text_data.page_text) = ""
    THEN OutputPage("text", page_number, "", 0, number)
    ELSE OutputPage("text", page_number, Upper(text_data.page_text), number,
                    number)

\* Python truth of page_images.get(page_number)
HasImagePath(page_number) ==
    page_number \in DOMAIN page_images /\ page_images[page_number].path # ""

\* Python truth of page_texts.get(page_number): a non-empty dict
HasTextData(page_number) == page_number \in DOMAIN page_texts

\* Lines 103-106: the cover page, when page_images has page 0.
AddCoverPage ==
    /\ f_layout = "pdf" /\ f_pc = "cover"
    /\ 0 \in DOMAIN page_images
    /\ output_pages' = Append(output_pages, CoverPage(page_images[0], pdf_page_number))
    /\ pdf_page_number' = pdf_page_number + 1
    /\ f_pc' = "pages"
    /\ UNCHANGED <<f_layout, f_pages, page_images, page_texts, f_idx, exceptPdf>>

\* Line 104: page_images has no page 0.
NoCoverPage ==
    /\ f_layout = "pdf" /\ f_pc = "cover"
    /\ 0 \notin DOMAIN page_images
    /\ f_pc' = "pages"
    /\ UNCHANGED <<f_layout, f_pages, page_images, page_texts, f_idx,
                   pdf_page_number, output_pages, exceptPdf>>

InPdfLoop(layout) ==
    f_layout = layout /\ f_pc = "pages" /\ f_idx <= Len(f_pages)

\* Lines 109-115: a page of type cover is skipped.
SkipCoverEntry ==
    /\ InPdfLoop("pdf")
    /\ f_pages[f_idx].page_type = "cover"
    /\ f_idx' = f_idx + 1
    /\ UNCHANGED <<f_layout, f_pages, page_images, page_texts,
                   pdf_page_number, output_pages, f_pc, exceptPdf>>

\* Lines 117-130 with the text page put before the image page.
AddTextAndImagePages ==
    /\ InPdfLoop("pdf")
    /\ f_pages[f_idx].page_type # "cover"
    /\ HasImagePath(f_pages[f_idx].page_number)
    /\ LET page_number == f_pages[f_idx].page_number
       IN  IF HasTextData(page_number)
           THEN /\ output_pages' =
                       output_pages \o
                       <<TextPage(page_number, page_texts[page_number],
                                  pdf_page_number),
                         ImagePage(page_number, page_images[page_number],
                                   pdf_page_number + 1)>>
                /\ pdf_page_number' = pdf_page_number + 2
           ELSE /\ output_pages' =
                       Append(output_pages,
                              ImagePage(page_number, page_images[page_number],
                                        pdf_page_number))
                /\ pdf_page_number' = pdf_page_number + 1
    /\ f_idx' = f_idx + 1
    /\ UNCHANGED <<f_layout, f_pages, page_images, page_texts, f_pc, exceptPdf>>

\* Lines 117-130: the page has an image: its image page, then its text page
\* when it has text data.
AddImageAndTextPages ==
    /\ InPdfLoop("pdf")
    /\ f_pages[f_idx].page_type # "cover"
    /\ HasImagePath(f_pages[f_idx].page_number)
    /\ LET page_number == f_pages[f_idx].page_number
           image_page == ImagePage(page_number, page_images[page_number],
                                  pdf_page_number)
       IN  IF HasTextData(page_number)
           THEN /\ output_pages' =
                       output_pages \o
                       <<image_page,
                         TextPage(page_number, page_texts[page_number],
                                  pdf_page_number + 1)>>
                /\ pdf_page_number' = pdf_page_number + 2
           ELSE /\ output_pages' = Append(output_pages, image_page)
                /\ pdf_page_number' = pdf_page_number + 1
    /\ f_idx' = f_idx + 1
    /\ UNCHANGED <<f_layout, f_pages, page_images, page_texts, f_pc, exceptPdf>>

\* Lines 117-121: the page has no image; nothing is added for it.
SkipPageWithoutImage ==
    /\ InPdfLoop("pdf")
    /\ f_pages[f_idx].page_type # "cover"
    /\ ~HasImagePath(f_pages[f_idx].page_number)
    /\ f_idx' = f_idx + 1
    /\ UNCHANGED <<f_layout, f_pages, page_images, page_texts,
                   pdf_page_number, output_pages, f_pc, exceptPdf>>

\* Lines 132-133: the PDF is saved.
SavePdf ==
    /\ f_layout = "pdf" /\ f_pc = "pages"
    /\ f_idx > Len(f_pages)
    /\ f_pc' = "saved"
    /\ UNCHANGED <<f_layout, f_pages, page_images, page_texts, f_idx,
                   pdf_page_number, output_pages, exceptPdf>>

\* html lines 516-524: the cover division, when page_images has page 0; it
\* is given no number and page_counter stays at 1.
HtmlCover ==
    /\ f_layout = "html" /\ f_pc = "cover"
    /\ IF 0 \in DOMAIN page_images
       THEN output_pages' =
                Append(output_pages,
                       OutputPage("cover", 0, page_images[0].path, 0, 0))
       ELSE UNCHANGED output_pages
    /\ f_pc' = "pages"
    /\ UNCHANGED <<f_layout, f_pages, page_images, page_texts, f_idx,
                   pdf_page_number, exceptPdf>>

\* html lines 527-533: a page of type cover is skipped.
HtmlSkipCoverEntry ==
    /\ InPdfLoop("html")
    /\ f_pages[f_idx].page_type = "cover"
    /\ f_idx' = f_idx + 1
    /\ UNCHANGED <<f_layout, f_pages, page_images, page_texts,
                   pdf_page_number, output_pages, f_pc, exceptPdf>>

\* html lines 535-553: a spread for a page with both image and text data;
\* the text page is numbered page_counter + 1, the image page has no number.
HtmlAddSpread ==
    /\ InPdfLoop("html")
    /\ f_pages[f_idx].page_type # "cover"
    /\ HasImagePath(f_pages[f_idx].page_number)
    /\ HasTextData(f_pages[f_idx].page_number)
    /\ LET page_number == f_pages[f_idx].page_number
       IN  output_pages' =
               output_pages \o
               <<OutputPage("image", page_number, page_images[page_number].path,
                            0, 0),
                 OutputPage("text", page_number,
                            Upper(page_texts[page_number].page_text),
                            pdf_page_number + 1, pdf_page_number + 1)>>
    /\ pdf_page_number' = pdf_page_number + 2
    /\ f_idx' = f_idx + 1
    /\ UNCHANGED <<f_layout, f_pages, page_images, page_texts, f_pc, exceptPdf>>

\* html lines 535-538: image or text data missing; nothing is added.
HtmlSkipPage ==
    /\ InPdfLoop("html")
    /\ f_pages[f_idx].page_type # "cover"
    /\ ~(HasImagePath(f_pages[f_idx].page_number)
           /\ HasTextData(f_pages[f_idx].page_number))
    /\ f_idx' = f_idx + 1
    /\ UNCHANGED <<f_layout, f_pages, page_images, page_texts,
                   pdf_page_number, output_pages, f_pc, exceptPdf>>

\* html lines 555-561: the document is closed and returned.
HtmlFinish ==
    /\ f_layout = "html" /\ f_pc = "pages"
    /\ f_idx > Len(f_pages)
    /\ f_pc' = "saved"
    /\ UNCHANGED <<f_layout, f_pages, page_images, page_texts, f_idx,
                   pdf_page_number, output_pages, exceptPdf>>

(***************************************************************************)
(* Claims about PDFGenerator                                                *)
(***************************************************************************)
\* C7: every non-cover page of the plan that has generated text yields a page
\* of the output carrying that text, also when its image is missing from
\* page_images; the text is never dropped.
C7_TextPageEvenWithoutImage ==
    f_pc = "saved" =>
        \A i \in 1..Len(f_pages) :
            LET page_number == f_pages[i].page_number
            IN  (/\ f_pages[i].page_type # "cover"
                 /\ HasTextData(page_number)
                 /\ page_texts[page_number].page_text # "") =>
                    \E k \in 1..Len(output_pages) :
                        /\ output_pages[k].kind = "text"
                        /\ output_pages[k].page_number = page_number
                        /\ output_pages[k].content =
                               Upper(page_texts[page_number].page_text)

\* C23: in the pages _create_alternating_layout_pdf emits, the cover page
\* (when page_images has a cover) is the first page and the only cover page,
\* the units appear in the order of their page numbers, and every text page
\* comes right after the image page of the same unit.
C23_CoverFirstThenImageTextPairs ==
    (f_layout = "pdf" /\ f_pc # "cover") =>
        /\ 0 \in DOMAIN page_images =>
               output_pages # <<>> /\ output_pages[1].kind = "cover"
        /\ \A k \in 1..Len(output_pages) :
              /\ output_pages[k].kind = "cover" =>
                     k = 1 /\ 0 \in DOMAIN page_images
              /\ output_pages[k].kind = "text" =>
                     /\ k > 1
                     /\ output_pages[k - 1].kind = "image"
                     /\ output_pages[k - 1].page_number
                            = output_pages[k].page_number
              /\ \A l \in (k + 1)..Len(output_pages) :
                     output_pages[k].kind # "cover" =>
                         output_pages[k].page_number
                             <= output_pages[l].page_number

\* A saved PDF with a cover, then image and text page of unit 1, then image
\* and text page of unit 2.
C23_Witness ==
    /\ f_layout = "pdf" /\ f_pc = "saved"
    /\ Len(output_pages) = 5
    /\ [k \in 1..5 |-> output_pages[k].kind]
           = <<"cover", "image", "text", "image", "text">>
    /\ [k \in 1..5 |-> output_pages[k].page_number] = <<0, 1, 1, 2, 2>>

\* C24: the number PDFGenerator gives an emitted page is the page's 1-based
\* position in the output sequence: 1 for the first page and one more for
\* every further page, with no gap or repeat, in the PDF and in the HTML
\* layout, also when units lack their image or their text.
C24_NumberIsPositionInOutput ==
    \A k \in 1..Len(output_pages) :
        (f_layout = "pdf" \/ output_pages[k].kind = "text") =>
            output_pages[k].pdf_page_number = k

(***************************************************************************)
(* IdeatorAgent.generate_initial_idea (ideator_agent.py).                   *)
(***************************************************************************)
\* A chapter entry of the LLM's plan as ChapterOutline takes it.
GoodChapter ==
    [title |-> "The Gate", summary |-> "Mia opens the gate.",
     image_placeholders_needed |-> 1]

\* A chapter entry with a field ChapterOutline does not have.
ChapterWithExtraField ==
    [title |-> "The Gate", summary |-> "Mia opens the gate.",
     image_placeholders_needed |-> 1, notes |-> "rhymes"]

\* What json.loads makes of the LLM's answer: a dict with or without
\* "chapters" (title and genre as plan_dict.get gives them, defaults
\* included), or a value that is no dict (list, string, number, null).
ParsedResponses ==
    { [type |-> "object", title |-> "Mia's Garden", genre |-> "Picture Book",
       theme |-> None, has_chapters |-> TRUE, chapters |-> <<GoodChapter>>],
      [type |-> "object", title |-> "Mia's Garden", genre |-> "Picture Book",
       theme |-> None, has_chapters |-> TRUE,
       chapters |-> <<GoodChapter, ChapterWithExtraField>>],
      [type |-> "object", title |-> "Mia's Garden", genre |-> "Picture Book",
       theme |-> None, has_chapters |-> TRUE, chapters |-> <<>>],
      [type |-> "object", title |-> "Untitled Book", genre |-> "Unknown Genre",
       theme |-> None, has_chapters |-> FALSE, chapters |-> <<>>],
      [type |-> "array", title |-> "", genre |-> "", theme |-> "",
       has_chapters |-> FALSE, chapters |-> <<>>],
      [type |-> "string", title |-> "", genre |-> "", theme |-> "",
       has_chapters |-> FALSE, chapters |-> <<>>] }

\* The optional arguments, each None or given.
IdeatorArguments ==
    [title : {None, "Provisional"}, genre : {None, "Fable"},
     theme : {None, "Sharing"}]

\* Lines 138-142: the chapters of the plan used when the answer is not JSON.
JsonFallbackChapters ==
    << [title |-> "The Mysterious Map",
        summary |-> "Children find a mysterious map in their grandmother's attic.",
        image_placeholders_needed |-> 2],
       [title |-> "Journey into the Whispering Woods",
        summary |-> "They follow the map into a local woods that transforms into a magical forest.",
        image_placeholders_needed |-> 3],
       [title |-> "Meeting the Forest Guardians",
        summary |-> "The children meet talking animals who are guardians of the forest.",
        image_placeholders_needed |-> 2] >>

\* Lines 166-172: the chapters of the plan used when the call raises.
ErrorFallbackChapters ==
    << [title |-> "Sparky's Big Problem",
        summary |-> "Introduce Sparky, a little dragon who can't breathe fire like his friends. He feels sad and left out.",
        image_placeholders_needed |-> 1],
       [title |-> "Trying Everything",
        summary |-> "Sparky tries different funny ways to make fire (eating spicy peppers, jumping up and down) but nothing works.",
        image_placeholders_needed |-> 2],
       [title |-> "A Kind Friend",
        summary |-> "Sparky meets a wise old owl who tells him everyone has unique talents.",
        image_placeholders_needed |-> 1],
       [title |-> "Discovering a New Talent",
        summary |-> "Sparky discovers he can blow beautiful, sparkling bubbles instead of fire, which delight his friends.",
        image_placeholders_needed |-> 2],
       [title |-> "The Bubble Festival",
        summary |-> "Sparky becomes the star of the annual forest festival with his amazing bubble show, learning to embrace his uniqueness.",
        image_placeholders_needed |-> 1] >>

\* Lines 123-145: the fallback plan_dict for an answer that is not JSON.
JsonFallbackPlan(args) ==
    [type |-> "object",
     title |-> IF args.title # None THEN args.title
               ELSE "The Magical Forest Adventure",
     genre |-> IF args.genre # None THEN args.genre ELSE "Children's Fantasy",
     theme |-> IF args.theme # None THEN args.theme
               ELSE "Friendship and adventure",
     has_chapters |-> TRUE, chapters |-> JsonFallbackChapters]

\* Lines 146-175: the fallback plan_dict for any other error.
ErrorFallbackPlan(args) ==
    [type |-> "object",
     title |-> IF args.title # None THEN args.title
               ELSE "The Little Dragon Who Couldn't Breathe Fire",
     genre |-> IF args.genre # None THEN args.genre
               ELSE "Children's Picture Book",
     theme |-> IF args.theme # None THEN args.theme
               ELSE "Self-acceptance and celebrating differences",
     has_chapters |-> TRUE, chapters |-> ErrorFallbackChapters]

\* ChapterOutline(**ch) accepts the dict: title and summary are there and
\* no key is unknown.
ChapterOutlineAccepts(ch) ==
    /\ {"title", "summary"} \subseteq DOMAIN ch
    /\ DOMAIN ch \subseteq {"title", "summary", "image_placeholders_needed"}

\* ChapterOutline(**ch) (book_plan.py): image_placeholders_needed is 0 when
\* not given.
ChapterOutline(ch) ==
    [title |-> ch.title, summary |-> ch.summary,
     image_placeholders_needed |->
         IF "image_placeholders_needed" \in DOMAIN ch
         THEN ch.image_placeholders_needed ELSE 0]

\* Lines 182-210 run through: plan_dict is a dict and ChapterOutline accepts
\* each of its chapters.
PlanBuilds(dict) ==
    /\ dict.type = "object"
    /\ \A i \in 1..Len(dict.chapters) :
           ChapterOutlineAccepts(dict.chapters[i])

\* Lines 182-204: the BookPlan built from plan_dict.
BuildBookPlan(args, dict) ==
    [title |-> IF args.title # None THEN args.title ELSE dict.title,
     genre |-> IF args.genre # None THEN args.genre ELSE dict.genre,
     theme |-> IF args.theme # None THEN args.theme ELSE dict.theme,
     chapters |-> IF dict.has_chapters
                  THEN [i \in 1..Len(dict.chapters) |->
                           ChapterOutline(dict.chapters[i])]
                  ELSE <<>>]

NoPlan == [title |-> "", genre |-> "", theme |-> "", chapters |-> <<>>]

NoPlanDict ==
    [type |-> "none", title |-> "", genre |-> "", theme |-> "",
     has_chapters |-> FALSE, chapters |-> <<>>]

IdeatorIdle ==
    /\ g_args = [title |-> None, genre |-> None, theme |-> None]
    /\ g_answer = "idle"
    /\ plan_dict = NoPlanDict
    /\ g_result = NoPlan
    /\ g_pc = "idle"

\* Lines 56-114: the prompt is formatted; the call is about to be made.
IdeatorInit ==
    /\ g_args \in IdeatorArguments
    /\ g_answer = "none"
    /\ plan_dict = NoPlanDict
    /\ g_result = NoPlan
    /\ g_pc = "run"

\* Lines 116-123: the LLM answers with JSON.
RunReturnsJson ==
    /\ g_pc = "run"
    /\ plan_dict' \in ParsedResponses
    /\ g_answer' = "json"
    /\ g_pc' = "build"
    /\ UNCHANGED <<g_args, g_result, exceptIdeator>>

\* Lines 116-145: the answer is not JSON; the three-chapter fallback plan.
RunReturnsNoJson ==
    /\ g_pc = "run"
    /\ plan_dict' = JsonFallbackPlan(g_args)
    /\ g_answer' = "not_json"
    /\ g_pc' = "build"
    /\ UNCHANGED <<g_args, g_result, exceptIdeator>>

\* Lines 116-118, 146-175: the call raises; the five-chapter fallback plan.
RunRaises ==
    /\ g_pc = "run"
    /\ plan_dict' = ErrorFallbackPlan(g_args)
    /\ g_answer' = "raised"
    /\ g_pc' = "build"
    /\ UNCHANGED <<g_args, g_result, exceptIdeator>>

\* Lines 177-212: the BookPlan is built and returned.
ReturnBookPlan ==
    /\ g_pc = "build"
    /\ PlanBuilds(plan_dict)
    /\ g_result' = BuildBookPlan(g_args, plan_dict)
    /\ g_pc' = "returned"
    /\ UNCHANGED <<g_args, g_answer, plan_dict, exceptIdeator>>

\* Lines 182-204, outside the try: plan_dict.get on a value that is no dict
\* (AttributeError) or ChapterOutline(**ch) on a chapter with an unknown or a
\* missing field (TypeError); generate_initial_idea raises.
BuildBookPlanRaises ==
    /\ g_pc = "build"
    /\ ~PlanBuilds(plan_dict)
    /\ g_pc' = "raised"
    /\ UNCHANGED <<g_args, g_answer, plan_dict, g_result, exceptIdeator>>

(***************************************************************************)
(* Claims about IdeatorAgent.generate_initial_idea                          *)
(***************************************************************************)
\* The planning call raised or its answer is no usable plan: not JSON, JSON
\* that is no object, or chapters with fields ChapterOutline does not take.
UnusablePlanningOutput ==
    \/ g_answer \in {"raised", "not_json"}
    \/ /\ g_answer = "json"
       /\ \/ plan_dict.type # "object"
          \/ \E i \in 1..Len(plan_dict.chapters) :
                 ~ChapterOutlineAccepts(plan_dict.chapters[i])

\* C9: whenever the planning call raises or gives no usable plan,
\* generate_initial_idea still returns a BookPlan whose chapter list is not
\* empty.
C9_PlanningAlwaysYieldsAPlan ==
    (g_pc \in {"returned", "raised"} /\ UnusablePlanningOutput) =>
        (g_pc = "returned" /\ g_result.chapters # <<>>)

(***************************************************************************)
(* BookCreationWorkflow.execute (book_creation_workflow.py).  The agents    *)
(* are the entries of self.agents; a step's outcome is what the agent's     *)
(* call hands back: a value, an empty value, or an exception.  The planning *)
(* call passes characters=..., a keyword generate_initial_idea of           *)
(* IdeatorAgent does not have: with that agent the call raises TypeError    *)
(* and only GenerateBookPlanRaises happens at the planning step.            *)
(***************************************************************************)
Info(message) == [level |-> "info", message |-> message]

Error(message) == [level |-> "error", message |-> message]

\* The plans the planning call may hand back with chapters.
WorkflowPlans == { BuildBookPlan([title |-> None, genre |-> None, theme |-> None], p) :
                      p \in {p \in ParsedResponses :
                                PlanBuilds(p) /\ p.chapters # <<>>} }
                 \cup { BuildBookPlan([title |-> None, genre |-> None,
                                       theme |-> None], JsonFallbackPlan(
                                      [title |-> None, genre |-> None,
                                       theme |-> None])) }

WorkflowIdle ==
    /\ wf_book_plan = NoPlan
    /\ wf_story = [book_plan |-> [title |-> ""], chapters_content |-> <<>>]
    /\ wf_images = <<>>
    /\ pdf_path = None
    /\ wf_calls = <<>>
    /\ wf_log = <<>>
    /\ wf_return = None
    /\ wf_pc = "idle"

\* Lines 142-149: the workflow has started; characters and trends are done.
WorkflowInit ==
    /\ wf_book_plan = NoPlan
    /\ wf_story = [book_plan |-> [title |-> ""], chapters_content |-> <<>>]
    /\ wf_images = <<>>
    /\ pdf_path = None
    /\ wf_calls = <<>>
    /\ wf_log = <<Info("Starting book creation workflow execution")>>
    /\ wf_return = None
    /\ wf_pc = "plan"

\* The text of the exception an agent call raises.
AgentError == "request failed"

\* A call of an agent and how it ended.
AgentCall(agent, outcome) == [agent |-> agent, outcome |-> outcome]

\* Lines 153, 220-243: the plan comes back with chapters.
GenerateBookPlan ==
    /\ wf_pc = "plan"
    /\ \E plan \in WorkflowPlans :
          /\ wf_book_plan' = plan
          /\ wf_log' = wf_log \o
                 <<Info("Generating book plan..."),
                   Info("Book plan generated: " \o plan.title \o " with "
                            \o ToString(Len(plan.chapters)) \o " chapters")>>
    /\ wf_calls' = Append(wf_calls, AgentCall("ideator", "returned"))
    /\ wf_pc' = "story"
    /\ UNCHANGED <<wf_story, wf_images, pdf_path, wf_return, exceptWorkflow>>

\* Lines 153-156, 239-246: the plan comes back without chapters.
GenerateBookPlanEmpty ==
    /\ wf_pc = "plan"
    /\ wf_calls' = Append(wf_calls, AgentCall("ideator", "empty"))
    /\ wf_log' = wf_log \o
           <<Info("Generating book plan..."),
             Error("Generated book plan is invalid or empty"),
             Error("Failed to generate book plan")>>
    /\ wf_return' = None
    /\ wf_pc' = "returned"
    /\ UNCHANGED <<wf_book_plan, wf_story, wf_images, pdf_path, exceptWorkflow>>

\* Lines 153-156, 225-250: the call raises.
GenerateBookPlanRaises ==
    /\ wf_pc = "plan"
    /\ \E e \in {"generate_initial_idea() got an unexpected keyword argument 'characters'",
                 "'list' object has no attribute 'get'"} :
          wf_log' = wf_log \o
              <<Info("Generating book plan..."),
                Error("Book plan generation failed: " \o e),
                Error("Failed to generate book plan")>>
    /\ wf_calls' = Append(wf_calls, AgentCall("ideator", "raised"))
    /\ wf_return' = None
    /\ wf_pc' = "returned"
    /\ UNCHANGED <<wf_book_plan, wf_story, wf_images, pdf_path, exceptWorkflow>>

\* Lines 159, 254-270: the story comes back with chapters.
WriteStoryContent ==
    /\ wf_pc = "story"
    /\ \E text \in StoryTexts :
          /\ wf_story' = [StoryContentOf(text) EXCEPT
                             !.book_plan = [title |-> wf_book_plan.title]]
          /\ wf_log' = wf_log \o
                 <<Info("Writing story content..."),
                   Info("Story content generated for " \o wf_book_plan.title)>>
    /\ wf_calls' = Append(wf_calls, AgentCall("story_writer", "returned"))
    /\ wf_pc' = "images"
    /\ UNCHANGED <<wf_book_plan, wf_images, pdf_path, wf_return, exceptWorkflow>>

\* Lines 159-162, 271-277: the story is empty or write_story raises.
WriteStoryContentFails ==
    /\ wf_pc = "story"
    /\ \E outcome \in {"empty", "raised"} :
          /\ wf_calls' = Append(wf_calls, AgentCall("story_writer", outcome))
          /\ wf_log' = wf_log \o
                 <<Info("Writing story content..."),
                   Error(IF outcome = "empty"
                         THEN "Generated story content is invalid or empty"
                         ELSE "Story content generation failed: " \o AgentError),
                   Error("Failed to generate story content")>>
    /\ wf_return' = None
    /\ wf_pc' = "returned"
    /\ UNCHANGED <<wf_book_plan, wf_story, wf_images, pdf_path, exceptWorkflow>>

\* Lines 165, 281-289: create_images returns its list.
GenerateImages ==
    /\ wf_pc = "images"
    /\ \E outcome \in [1..Len(ExpectedIds(wf_story)) -> {"file", "absent"}] :
          LET images == ImagesFor(ExpectedIds(wf_story), outcome, 1)
          IN  /\ wf_images' = images
              /\ wf_log' = wf_log \o
                     <<Info("Generating images..."),
                       Info("Image generation completed: "
                                \o ToString(Len(images))
                                \o " images processed")>>
    /\ wf_calls' = Append(wf_calls, AgentCall("image_creator", "returned"))
    /\ wf_pc' = "pdf"
    /\ UNCHANGED <<wf_book_plan, wf_story, pdf_path, wf_return, exceptWorkflow>>

\* Lines 165, 281-293: create_images raises; the list is empty.
GenerateImagesRaises ==
    /\ wf_pc = "images"
    /\ wf_images' = <<>>
    /\ wf_log' = wf_log \o
           <<Info("Generating images..."), Error("Image generation failed: " \o AgentError)>>
    /\ wf_calls' = Append(wf_calls, AgentCall("image_creator", "raised"))
    /\ wf_pc' = "pdf"
    /\ UNCHANGED <<wf_book_plan, wf_story, pdf_path, wf_return, exceptWorkflow>>

\* Lines 168, 297-316 with impaginator_agent.py lines 195-196: the PDF is
\* written and its path handed back.
CreatePdf ==
    /\ wf_pc = "pdf"
    /\ pdf_path' = PdfPath(wf_story.book_plan.title)
    /\ wf_log' = wf_log \o
           <<Info("Creating PDF..."),
             Info("PDF created successfully: " \o pdf_path')>>
    /\ wf_calls' = Append(wf_calls, AgentCall("impaginator", "returned"))
    /\ wf_pc' = "finish"
    /\ UNCHANGED <<wf_book_plan, wf_story, wf_images, wf_return, exceptWorkflow>>

\* Lines 168, 297-316 with impaginator_agent.py lines 198-201: the
\* renderer fails inside create_book_pdf, which hands back its error message.
CreatePdfRendererFails ==
    /\ wf_pc = "pdf"
    /\ pdf_path' = ErrorMessage("book.html")
    /\ wf_log' = wf_log \o
           <<Info("Creating PDF..."),
             Info("PDF created successfully: " \o pdf_path')>>
    /\ wf_calls' = Append(wf_calls, AgentCall("impaginator", "error_message"))
    /\ wf_pc' = "finish"
    /\ UNCHANGED <<wf_book_plan, wf_story, wf_images, wf_return, exceptWorkflow>>

\* Lines 168, 297-320: the call itself raises; _create_pdf returns None.
CreatePdfRaises ==
    /\ wf_pc = "pdf"
    /\ pdf_path' = None
    /\ wf_log' = wf_log \o
           <<Info("Creating PDF..."), Error("PDF creation failed: " \o AgentError)>>
    /\ wf_calls' = Append(wf_calls, AgentCall("impaginator", "raised"))
    /\ wf_pc' = "finish"
    /\ UNCHANGED <<wf_book_plan, wf_story, wf_images, wf_return, exceptWorkflow>>

\* Lines 171-174: no translator is configured; the closing log line and the
\* return.
FinishWorkflow ==
    /\ wf_pc = "finish"
    /\ wf_log' = Append(wf_log,
                        Info("Book creation workflow completed successfully: "
                                 \o pdf_path))
    /\ wf_return' = pdf_path
    /\ wf_pc' = "returned"
    /\ UNCHANGED <<wf_book_plan, wf_story, wf_images, pdf_path, wf_calls,
                   exceptWorkflow>>

(***************************************************************************)
(* Claims about BookCreationWorkflow.execute                                *)
(***************************************************************************)
RendererFailed ==
    \E k \in 1..Len(wf_calls) :
        wf_calls[k] = AgentCall("impaginator", "error_message")

LoggedAsCompleted ==
    \E k \in 1..Len(wf_log) :
        /\ wf_log[k].level = "info"
        /\ Prefix(wf_log[k].message, Len("Book creation workflow completed successfully"))
               = "Book creation workflow completed successfully"

\* C8: when the renderer fails inside create_book_pdf, execute reports a
\* failure: it returns None, not a value taken for the path of a document,
\* and it does not log the run as completed successfully.
C8_RendererFailureIsReported ==
    (wf_pc = "returned" /\ RendererFailed) =>
        (wf_return = None /\ ~LoggedAsCompleted)

(***************************************************************************)
(* IdeogramClient.generate_image (ideogram_client.py) and                   *)
(* IdeogramImageGenerationTool.forward (ideogram_image_generation_tool.py): *)
(* one generation request, then the download of the image it names.  The    *)
(* client raises where the tool returns the error text.                     *)
(***************************************************************************)
\* ideogram_client.py line 164, tool line 127: range(3)
DownloadAttempts == 3

\* ideogram_client.py line 171, tool line 133: time.sleep(2)
DownloadWait == 2

Implementations == {"client", "tool"}

OutputPaths == {PagePath(n) : n \in 1..MaxPages} \cup {CoverPath}

IdeogramIdle ==
    /\ ig_impl = ""
    /\ output_path = None
    /\ ig_events = <<>>
    /\ attempt = 0
    /\ output_file = FALSE
    /\ ig_result = [kind |-> "none", value |-> None]
    /\ ig_pc = "idle"

\* Client lines 67-128, tool lines 37-104: the output directory is made and
\* the request data prepared; no file is at output_path yet.
IdeogramInit ==
    /\ ig_impl \in Implementations
    /\ output_path \in OutputPaths
    /\ ig_events = <<>>
    /\ attempt = 0
    /\ output_file = FALSE
    /\ ig_result = [kind |-> "none", value |-> None]
    /\ ig_pc = "post"

Post(ok) == [op |-> "post", ok |-> ok, seconds |-> 0]

Get(ok) == [op |-> "get", ok |-> ok, seconds |-> 0]

Sleep(seconds) == [op |-> "sleep", ok |-> TRUE, seconds |-> seconds]

\* How a failure leaves the function: the client raises Exception(message),
\* the tool returns the message.
Failure(message) ==
    [kind |-> IF ig_impl = "client" THEN "raised" ELSE "returned",
     value |-> message]

\* Client lines 131-161, tool lines 107-122: the request is answered with
\* the URL of an image.
PostReturnsUrl ==
    /\ ig_pc = "post"
    /\ ig_events' = Append(ig_events, Post(TRUE))
    /\ attempt' = 0
    /\ ig_pc' = "download"
    /\ UNCHANGED <<ig_impl, output_path, output_file, ig_result, exceptIdeogram>>

\* Client lines 131-152 and 181-191, tool lines 107-114 and 141-144: the
\* request fails; it is not made again.
PostFails ==
    /\ ig_pc = "post"
    /\ ig_events' = Append(ig_events, Post(FALSE))
    /\ \E message \in {"HTTP Error: 429", "Request Error: timed out"} :
          ig_result' = Failure(message)
    /\ ig_pc' = "done"
    /\ UNCHANGED <<ig_impl, output_path, attempt, output_file, exceptIdeogram>>

\* Client lines 155-161 and 192-193, tool lines 117-122: the answer names no
\* image.
PostReturnsNoUrl ==
    /\ ig_pc = "post"
    /\ ig_events' = Append(ig_events, Post(TRUE))
    /\ ig_result' = Failure(IF ig_impl = "client"
                            THEN "Unexpected Error: No image URL returned."
                            ELSE "Error: No image URL returned.")
    /\ ig_pc' = "done"
    /\ UNCHANGED <<ig_impl, output_path, attempt, output_file, exceptIdeogram>>

\* Client lines 164-168, tool lines 127-131: a download attempt succeeds and
\* ends the loop.
DownloadSucceeds ==
    /\ ig_pc = "download"
    /\ attempt < DownloadAttempts
    /\ ig_events' = Append(ig_events, Get(TRUE))
    /\ ig_pc' = "save"
    /\ UNCHANGED <<ig_impl, output_path, attempt, output_file, ig_result,
                   exceptIdeogram>>

\* Client lines 164-173 and 192-193: a download attempt fails; the client
\* waits unless it was the last attempt, after which it raises.  Tool lines
\* 127-135: the tool waits after every failed attempt and returns the error
\* text when the loop runs out.
DownloadFails ==
    /\ ig_pc = "download"
    /\ attempt < DownloadAttempts
    /\ LET last == attempt = DownloadAttempts - 1
           waits == ig_impl = "tool" \/ ~last
       IN  /\ ig_events' = ig_events \o <<Get(FALSE)>> \o
                  (IF waits THEN <<Sleep(DownloadWait)>> ELSE <<>>)
           /\ attempt' = IF last /\ ig_impl = "client" THEN attempt
                         ELSE attempt + 1
           /\ ig_result' =
                  IF last
                  THEN Failure(IF ig_impl = "client"
                               THEN "Unexpected Error: Failed to download image after retries."
                               ELSE "Error: Failed to download image after retries.")
                  ELSE ig_result
           /\ ig_pc' = IF last THEN "done" ELSE "download"
    /\ UNCHANGED <<ig_impl, output_path, output_file, exceptIdeogram>>

\* Client lines 176-179, tool lines 137-140: the image is written and its
\* path returned.
SaveImage ==
    /\ ig_pc = "save"
    /\ output_file' = TRUE
    /\ ig_result' = [kind |-> "returned", value |-> output_path]
    /\ ig_pc' = "done"
    /\ UNCHANGED <<ig_impl, output_path, ig_events, attempt, exceptIdeogram>>

\* Client lines 176-177 and 192-193, tool lines 137-138 and 145-146: opening
\* the file for writing fails.
SaveImageRaises ==
    /\ ig_pc = "save"
    /\ ig_result' = Failure("Unexpected Error: Permission denied")
    /\ ig_pc' = "done"
    /\ UNCHANGED <<ig_impl, output_path, ig_events, attempt, output_file,
                   exceptIdeogram>>

(***************************************************************************)
(* Claims about IdeogramClient.generate_image                               *)
(***************************************************************************)
\* The attempts of the request: the generation request and the downloads.
Attempts == SelectSeq(ig_events, LAMBDA e : e.op \in {"post", "get"})

FailedAttempts == SelectSeq(Attempts, LAMBDA e : ~e.ok)

\* C12: a request through IdeogramClient.generate_image is attempted at most
\* 3 times, with the same wait between consecutive attempts and none after
\* the last; it stops at the first download that succeeds, it fails only
\* after 3 failed attempts, and it returns a path only when the file of that
\* path exists.
C12_ThreeAttemptsThenFailure ==
    ig_impl = "client" =>
        /\ Len(SelectSeq(ig_events, LAMBDA e : e.op = "get")) <= 3
        /\ \A k \in 1..Len(ig_events) :
               ig_events[k].op = "sleep" =>
                   /\ ig_events[k].seconds = DownloadWait
                   /\ k > 1 /\ ig_events[k - 1].op = "get"
                   /\ ig_pc = "done" => k < Len(ig_events)
        /\ \A k \in 1..Len(ig_events) :
               (ig_events[k].op = "get" /\ ig_events[k].ok) =>
                   k = Len(ig_events)
        /\ (ig_pc = "done" /\ ig_result.kind = "raised") =>
               Len(FailedAttempts) = 3
        /\ (ig_pc = "done" /\ ig_result.kind = "returned") =>
               (ig_result.value = output_path /\ output_file)

(***************************************************************************)
(* StoryContext.update_from_page called any number of times on one context, *)
(* with any page of ContextPages (page numbers repeat) and any text.        *)
(***************************************************************************)
MaxUpdates == 4

\* The two story pages of PagePool and a second page numbered 2.
ContextPages ==
    {p \in PagePool : p.page_type = "story"} \cup
    { [page_number |-> 2, page_type |-> "story",
       scene_description |-> "Leo reads",
       characters_present |-> <<"Leo">>,
       visual_elements |-> <<"School yard", "a forest path">>] }

ContextPlans == { [themes |-> <<"friendship", "Sharing">>] }

ContextTexts == PageTexts \cup {"Sharing made Leo calm."}

ContextIdle ==
    /\ u_plan = [themes |-> <<>>]
    /\ u_context = EmptyContext
    /\ u_calls = <<>>

\* Lines 24-33: a new StoryContext.
ContextInit ==
    /\ u_plan \in ContextPlans
    /\ u_context = EmptyContext
    /\ u_calls = <<>>

\* Lines 35-127: one call of update_from_page.
CallUpdateFromPage ==
    /\ Len(u_calls) < MaxUpdates
    /\ \E page_data \in ContextPages, page_text \in ContextTexts :
          /\ u_context' = UpdateFromPage(u_context, page_data,
                                         [page_text |-> page_text], u_plan)
          /\ u_calls' = Append(u_calls, [page_data |-> page_data,
                                         page_text |-> page_text])
    /\ UNCHANGED <<u_plan, exceptContext>>

(***************************************************************************)
(* Claims about StoryContext                                                *)
(***************************************************************************)
\* The page summaries of the calls made so far, in call order.
CallSummaries == [k \in 1..Len(u_calls) |-> PageSummary(u_calls[k].page_data)]

\* How many times needle occurs in hay.
CountIn(needle, hay) ==
    Cardinality({i \in 1..(Len(hay) - Len(needle) + 1) :
                     SubSeq(hay, i, i + Len(needle) - 1) = needle})

\* s ends with suffix.
EndsWith(s, suffix) ==
    /\ Len(s) >= Len(suffix)
    /\ SubSeq(s, Len(s) - Len(suffix) + 1, Len(s)) = suffix

\* C13: after N >= 1 updates story_summary is the " -> "-join of the last
\* min(N, 3) page summaries in call order, so the context string carries at
\* most 3 unit summaries whatever N is; the context string lists only the
\* last 2 tensions and only the latest mood.
C13_SummaryOfLastThree ==
    LET N == Len(u_calls)
        last == SubSeq(CallSummaries, IF N > 3 THEN N - 2 ELSE 1, N)
        text == GetContextForGeneration(u_context)
        tensions == u_context.story_tensions
        T == Len(tensions)
        moods == u_context.mood_progression
    IN  N >= 1 =>
            /\ Len(last) <= 3
            /\ u_context.story_summary = Join(" -> ", last)
            /\ CountIn("Page ", SubSeq(text, 1, Len("Story so far: " \o
                                                     u_context.story_summary)))
                   = Len(last)
            /\ CountIn("Current mood: ", text) = 1
            /\ In("Current mood: " \o moods[Len(moods)], text)
            /\ T >= 1 =>
                   /\ EndsWith(text, " | Story tensions: " \o
                          Join("; ", SubSeq(tensions, IF T > 2 THEN T - 1 ELSE 1, T)))
                   /\ CountIn("; ", text) <= 1

\* C13 witness: more than 3 updates, more than 2 tensions, more than 1 mood.
C13_Witness ==
    /\ Len(u_calls) > 3
    /\ Len(u_context.story_tensions) > 2
    /\ Len(u_context.mood_progression) > 1

\* No element of seq occurs at two positions.
NoRepeats(seq) == \A i, j \in 1..Len(seq) : seq[i] = seq[j] => i = j

\* C14: after any sequence of updates, with page numbers repeated or not,
\* character_states has one entry per character name and themes_developed,
\* key_locations and story_tensions hold no element twice.
C14_NoDuplicateEntries ==
    /\ NoRepeats([i \in 1..Len(u_context.character_states) |->
                     u_context.character_states[i].name])
    /\ NoRepeats(u_context.themes_developed)
    /\ NoRepeats(u_context.key_locations)
    /\ NoRepeats(u_context.story_tensions)

\* seq with every run of equal adjacent elements collapsed to one element;
\* collapsed is the result for the elements before index k.
RECURSIVE CollapseFrom(_, _, _)
CollapseFrom(seq, k, collapsed) ==
    IF k > Len(seq) THEN collapsed
    ELSE CollapseFrom(seq, k + 1,
             IF collapsed # <<>> /\ collapsed[Len(collapsed)] = seq[k]
             THEN collapsed ELSE Append(collapsed, seq[k]))

CollapseRuns(seq) == CollapseFrom(seq, 1, <<>>)

\* C15: starting from an empty context, mood_progression never holds two
\* equal adjacent entries, it is non-empty after the first update, and each
\* update appends at most one entry, the mood its text is classified as
\* ("neutral" when no keyword is in it): the log is the moods of the texts
\* in call order with repeats in a row left out.
C15_NoAdjacentEqualMoods ==
    LET moods == u_context.mood_progression
    IN  /\ \A i \in 1..(Len(moods) - 1) : moods[i] # moods[i + 1]
        /\ Len(u_calls) >= 1 => moods # <<>>
        /\ moods = CollapseRuns([k \in 1..Len(u_calls) |->
                                    CurrentMood(u_calls[k].page_text)])
        /\ \A k \in 1..Len(u_calls) :
               u_calls[k].page_text = "Mia found a problem." =>
                   \E i \in 1..Len(moods) : moods[i] = "neutral"

\* C15 witness: the same mood twice in a row, then another one.
C15_Witness ==
    /\ Len(u_calls) = 3
    /\ u_calls[1].page_text = u_calls[2].page_text
    /\ u_calls[2].page_text # u_calls[3].page_text
    /\ Len(u_context.mood_progression) = 2

\* The page text of call k contains one of the words of theme.
Mentions(k, theme) == AnyIn(Split(theme), u_calls[k].page_text)

\* C16: a planned theme is added to themes_developed at the first update
\* whose page text contains one of the theme's words, and it is never
\* removed: the theme is in themes_developed exactly when the text of some
\* update so far contained one of its words.
C16_ThemeAddedAtFirstMention ==
    \A i \in 1..Len(u_plan.themes) :
        SeqContains(u_context.themes_developed, u_plan.themes[i])
            <=> \E k \in 1..Len(u_calls) : Mentions(k, u_plan.themes[i])

\* The state of the character called name in states; name is a key of it.
StateOf(states, name) ==
    states[CHOOSE i \in 1..Len(states) : states[i].name = name]

\* Some visual element of the page contains a location keyword.
NamesLocation(page_data) ==
    \E k \in 1..Len(page_data.visual_elements) :
        \E w \in {"garden", "house", "forest", "park", "school"} :
            In(w, Lower(page_data.visual_elements[k]))

\* C17: an update creates the state of every present character that was
\* unseen, with first_appearance the page number of the update; for a
\* character seen before it leaves first_appearance as it was and changes
\* location only when a visual element of the page contains a location
\* keyword; the state of a character that is not present is left as it was.
C17_CharacterStateUpdate ==
    [][LET page_data == u_calls'[Len(u_calls')].page_data
           present == {page_data.characters_present[j] :
                           j \in 1..Len(page_data.characters_present)}
           before == u_context.character_states
           after == u_context'.character_states
       IN  /\ \A name \in present :
                  /\ HasCharacter(after, name)
                  /\ ~HasCharacter(before, name) =>
                         StateOf(after, name).first_appearance
                             = page_data.page_number
                  /\ HasCharacter(before, name) =>
                         /\ StateOf(after, name).first_appearance
                                = StateOf(before, name).first_appearance
                         /\ StateOf(after, name).location
                                # StateOf(before, name).location
                                => NamesLocation(page_data)
                         /\ [StateOf(after, name) EXCEPT !.location = ""]
                                = [StateOf(before, name) EXCEPT !.location = ""]
           /\ \A i \in 1..Len(before) :
                  before[i].name \notin present =>
                      /\ HasCharacter(after, before[i].name)
                      /\ StateOf(after, before[i].name) = before[i]
           /\ \A i \in 1..Len(after) :
                  HasCharacter(before, after[i].name) \/ after[i].name \in present
      ]_vars

\* C17 witness: Mia is created on page 1 and seen again on page 2, which
\* names no location; Leo is created on page 2 and seen again, without Mia,
\* on a page that names a location.
C17_Witness ==
    /\ Len(u_calls) = 3
    /\ u_calls[1].page_data.characters_present = <<"Mia">>
    /\ u_calls[2].page_data.characters_present = <<"Mia", "Leo">>
    /\ u_calls[3].page_data.characters_present = <<"Leo">>
    /\ StateOf(u_context.character_states, "Mia").first_appearance = 1
    /\ StateOf(u_context.character_states, "Mia").location = "Garden gate"
    /\ StateOf(u_context.character_states, "Leo").first_appearance = 2
    /\ StateOf(u_context.character_states, "Leo").location = "a forest path"

(***************************************************************************)
(* The page-book pipeline of src/app.py (generate_book, generate_book_async *)
(* in its worker thread, update_status, download_book) and of src/main.py   *)
(* (main), for one generation.  The worker and the request handlers run in  *)
(* different threads; a step is one statement on the shared dict.           *)
(***************************************************************************)
\* The id uuid.uuid4() gives the generation.
GenerationId == "g1"

\* The calls of the pipeline in the order of the code: app.py lines 148,
\* 152-166, 171, 179, 192, 202, 210; main.py lines 157, 163-167, 173, 188,
\* 209, 226, 243.
PipelineCalls ==
    <<"load_config", "initialize", "process_multiple_characters",
      "create_book_plan", "generate_all_page_images",
      "generate_all_page_texts", "create_book_pdf">>

\* main.py lines 249-257: GENERATE_HTML is True, the HTML version follows.
StageCalls(entry) ==
    IF entry = "main" THEN Append(PipelineCalls, "create_html_version")
    ELSE PipelineCalls

\* app.py lines 145, 151, 169, 177, 190, 200, 208: the progress reported
\* before each call.
StageProgress == <<10, 15, 25, 40, 60, 80, 90>>

\* str(output_path) as create_book_pdf returns it.
BookPdfPath == "output/books/book.pdf"

\* app.py lines 221-228: update_status without its pdf_path part.
UpdateStatus(generations, generation_id, status, progress) ==
    IF generation_id \in DOMAIN generations
    THEN [generations EXCEPT ![generation_id].status = status,
                             ![generation_id].progress = progress]
    ELSE generations

MaxRequests == 2

AppIdle ==
    /\ a_entry = ""
    /\ ongoing_generations = <<>>
    /\ a_stage = 0
    /\ a_calls = <<>>
    /\ a_pc = "idle"
    /\ d_pc = "idle"
    /\ a_responses = <<>>

\* The web application before the POST to /api/generate, or main() at its
\* first call.
AppInit ==
    /\ a_entry \in {"app", "main"}
    /\ ongoing_generations = <<>>
    /\ a_stage = 1
    /\ a_calls = <<>>
    /\ a_pc = IF a_entry = "app" THEN "request" ELSE "call"
    /\ d_pc = "idle"
    /\ a_responses = <<>>

\* app.py lines 62-88: generate_book stores the entry and starts the worker.
GenerateBook ==
    /\ a_entry = "app" /\ a_pc = "request"
    /\ ongoing_generations' =
           [g \in {GenerationId} |->
               [status |-> "starting", progress |-> 0, pdf_path |-> None]]
    /\ a_pc' = "update"
    /\ UNCHANGED <<a_entry, a_stage, a_calls, d_pc, a_responses, exceptApp>>

\* app.py lines 145, 151, 169, 177, 190, 200, 208: the worker reports the
\* stage it is about to run.
UpdateStatusProcessing ==
    /\ a_entry = "app" /\ a_pc = "update"
    /\ ongoing_generations' =
           UpdateStatus(ongoing_generations, GenerationId, "processing",
                        StageProgress[a_stage])
    /\ a_pc' = "call"
    /\ UNCHANGED <<a_entry, a_stage, a_calls, d_pc, a_responses, exceptApp>>

PipelineCall(outcome) ==
    [call |-> StageCalls(a_entry)[a_stage], outcome |-> outcome]

\* The call of the stage returns, and the next stage begins; after the last
\* stage the worker goes to line 217 and main to its summary and return 0.
StageReturns ==
    /\ a_pc = "call"
    /\ a_calls' = Append(a_calls, PipelineCall("returned"))
    /\ IF a_stage < Len(StageCalls(a_entry))
       THEN /\ a_stage' = a_stage + 1
            /\ a_pc' = IF a_entry = "app" THEN "update" ELSE "call"
       ELSE /\ a_stage' = a_stage
            /\ a_pc' = IF a_entry = "app" THEN "complete" ELSE "done"
    /\ UNCHANGED <<a_entry, ongoing_generations, d_pc, a_responses, exceptApp>>

\* StageRaises with an exception that may also come after line 217 has put
\* the entry to completed.
StageRaisesAfterCompleted ==
    /\ a_pc \in {"call", "set_pdf_path"}
    /\ a_calls' = Append(a_calls, PipelineCall("raised"))
    /\ ongoing_generations' =
           IF a_entry = "app"
           THEN UpdateStatus(ongoing_generations, GenerationId, "error", -1)
           ELSE ongoing_generations
    /\ a_pc' = "done"
    /\ UNCHANGED <<a_entry, a_stage, d_pc, a_responses, exceptApp>>

\* The call of the stage raises, or process_multiple_characters returns no
\* character and lines 173-174 (main.py 175-176) raise.  app.py lines
\* 219-220: the worker reports the error; main.py lines 283-290: return 1.
StageRaises ==
    /\ a_pc = "call"
    /\ \E outcome \in {"raised", "empty"} :
          /\ outcome = "empty" =>
                 StageCalls(a_entry)[a_stage] = "process_multiple_characters"
          /\ a_calls' = Append(a_calls, PipelineCall(outcome))
    /\ ongoing_generations' =
           IF a_entry = "app"
           THEN UpdateStatus(ongoing_generations, GenerationId, "error", -1)
           ELSE ongoing_generations
    /\ a_pc' = "done"
    /\ UNCHANGED <<a_entry, a_stage, d_pc, a_responses, exceptApp>>

\* app.py line 217 with 221-228: the entry is updated to completed.
UpdateStatusCompleted ==
    /\ a_entry = "app" /\ a_pc = "complete"
    /\ ongoing_generations' =
           UpdateStatus(ongoing_generations, GenerationId, "completed", 100)
    /\ a_pc' = "set_pdf_path"
    /\ UNCHANGED <<a_entry, a_stage, a_calls, d_pc, a_responses, exceptApp>>

\* app.py lines 230-231: pdf_path is stored, in a statement of its own.
SetPdfPath ==
    /\ a_entry = "app" /\ a_pc = "set_pdf_path"
    /\ ongoing_generations' =
           [ongoing_generations EXCEPT ![GenerationId].pdf_path = BookPdfPath]
    /\ a_pc' = "done"
    /\ UNCHANGED <<a_entry, a_stage, a_calls, d_pc, a_responses, exceptApp>>

\* A response of download_book: the HTTP code and the file sent.
DownloadResponse(code, file) == [code |-> code, file |-> file]

\* app.py lines 112-128: download_book looks the generation up and checks
\* its status.
DownloadCheckStatus ==
    /\ a_entry = "app" /\ d_pc = "idle"
    /\ Len(a_responses) < MaxRequests
    /\ IF GenerationId \notin DOMAIN ongoing_generations
       THEN /\ a_responses' = Append(a_responses, DownloadResponse(404, None))
            /\ d_pc' = "idle"
       ELSE IF ongoing_generations[GenerationId].status # "completed"
       THEN /\ a_responses' = Append(a_responses, DownloadResponse(400, None))
            /\ d_pc' = "idle"
       ELSE /\ a_responses' = a_responses
            /\ d_pc' = "read_path"
    /\ UNCHANGED <<a_entry, ongoing_generations, a_stage, a_calls, a_pc,
                   exceptApp>>

\* app.py lines 130-140: the path is read and the file sent when it is on
\* disk.
DownloadSendFile ==
    /\ d_pc = "read_path"
    /\ \E on_disk \in BOOLEAN :
          LET path == ongoing_generations[GenerationId].pdf_path
          IN  a_responses' =
                  Append(a_responses,
                         IF path = None \/ ~on_disk
                         THEN DownloadResponse(404, None)
                         ELSE DownloadResponse(200, path))
    /\ d_pc' = "idle"
    /\ UNCHANGED <<a_entry, ongoing_generations, a_stage, a_calls, a_pc,
                   exceptApp>>

(***************************************************************************)
(* Claims about the pipeline entry points                                   *)
(***************************************************************************)
\* C26: in every pipeline entry point (BookCreationWorkflow.execute,
\* main.main, app.generate_book_async) the first image request is issued only
\* after the text generation for all narrative units has finished.
C26_ImagesOnlyAfterAllTexts ==
    /\ \A k \in 1..Len(a_calls) :
           a_calls[k].call = "generate_all_page_images" =>
               \E j \in 1..(k - 1) :
                   /\ a_calls[j].call = "generate_all_page_texts"
                   /\ a_calls[j].outcome = "returned"
    /\ \A k \in 1..Len(wf_calls) :
           wf_calls[k].agent = "image_creator" =>
               \E j \in 1..(k - 1) :
                   /\ wf_calls[j].agent = "story_writer"
                   /\ wf_calls[j].outcome = "returned"

\* The status of the generation in a dict of generations; "absent" before
\* generate_book has stored the entry.
StatusIn(generations) ==
    IF GenerationId \in DOMAIN generations
    THEN generations[GenerationId].status ELSE "absent"

PdfPathIn(generations) ==
    IF GenerationId \in DOMAIN generations
    THEN generations[GenerationId].pdf_path ELSE None

StatusSteps ==
    { <<"absent", "starting">>, <<"starting", "processing">>,
      <<"processing", "completed">>, <<"processing", "error">> }

\* C29: a generation started by generate_book goes from "starting" to
\* "processing" and then to exactly one of "completed" and "error"; once it is
\* "completed" or "error" its status never changes again, pdf_path is set
\* only by the update that makes it "completed", and download_book sends a
\* file only for a generation whose status is "completed".
C29_StatusLifecycle ==
    /\ [](a_entry = "app" =>
            /\ a_pc \in {"call", "complete"} =>
                   StatusIn(ongoing_generations) = "processing"
            /\ a_pc = "done" =>
                   StatusIn(ongoing_generations) \in {"completed", "error"}
            /\ PdfPathIn(ongoing_generations) # None =>
                   StatusIn(ongoing_generations) = "completed")
    /\ [][ /\ StatusIn(ongoing_generations') # StatusIn(ongoing_generations) =>
                  <<StatusIn(ongoing_generations), StatusIn(ongoing_generations')>>
                      \in StatusSteps
           /\ PdfPathIn(ongoing_generations') # PdfPathIn(ongoing_generations) =>
                  /\ PdfPathIn(ongoing_generations) = None
                  /\ StatusIn(ongoing_generations') = "completed"
           /\ (/\ Len(a_responses') = Len(a_responses) + 1
               /\ a_responses'[Len(a_responses')].code = 200) =>
                  /\ StatusIn(ongoing_generations) = "completed"
                  /\ a_responses'[Len(a_responses')].file
                         = PdfPathIn(ongoing_generations)
         ]_vars

\* A completed generation whose book was refused while it was processing and
\* sent once it was completed.
C29_Witness ==
    /\ StatusIn(ongoing_generations) = "completed"
    /\ a_pc = "done"
    /\ a_responses = <<DownloadResponse(400, None),
                       DownloadResponse(200, BookPdfPath)>>

(***************************************************************************)
(* The chapter-book web application (book_publishing_web/app.py), for one   *)
(* job: generate_book, its worker thread run_book_generation, and the       *)
(* get_book_status requests.  Worker and request handlers run in different  *)
(* threads on the shared book_jobs entry; a step is one statement on it.    *)
(* The writes of current_stage, start_time and project_output_dir are left  *)
(* out.  main_workflow is an import; it returns a pdf path or raises.       *)
(***************************************************************************)
ProjectId == "book_1"

JobPdfPath == "output/book_1/book.pdf"

\* Seconds between start_time and a status request.
ElapsedTimes == {4, 12, 25, 40}

\* Lines 154-166: the progress a status request writes for a running job;
\* int() of a non-negative number rounds down.
SimulatedProgress(elapsed_time) ==
    LET Min(a, b) == IF a < b THEN a ELSE b
    IN  IF elapsed_time < 10 THEN Min(25, (elapsed_time * 5) \div 2)
        ELSE IF elapsed_time < 20
        THEN Min(50, 25 + ((elapsed_time - 10) * 5) \div 2)
        ELSE IF elapsed_time < 30
        THEN Min(75, 50 + ((elapsed_time - 20) * 5) \div 2)
        ELSE Min(95, 75 + (elapsed_time - 30) \div 2)

MaxStatusRequests == 2

JobsIdle ==
    /\ book_jobs = <<>>
    /\ j_pc = "idle"
    /\ j_pdf_path = None
    /\ s_pc = "idle"
    /\ s_elapsed = 0
    /\ s_responses = <<>>

\* The application before the POST to /api/generate-book.
JobsInit ==
    /\ book_jobs = <<>>
    /\ j_pc = "request"
    /\ j_pdf_path = None
    /\ s_pc = "idle"
    /\ s_elapsed = 0
    /\ s_responses = <<>>

\* Lines 33-98: generate_book stores the job and starts the worker.
StartJob ==
    /\ j_pc = "request"
    /\ book_jobs' =
           [p \in {ProjectId} |->
               [status |-> "initializing", progress |-> 0, pdf_path |-> None,
                error |-> None]]
    /\ j_pc' = "status"
    /\ UNCHANGED <<j_pdf_path, s_pc, s_elapsed, s_responses, exceptJobs>>

\* Line 108
SetGenerating ==
    /\ j_pc = "status"
    /\ book_jobs' = [book_jobs EXCEPT ![ProjectId].status = "generating"]
    /\ j_pc' = "progress"
    /\ UNCHANGED <<j_pdf_path, s_pc, s_elapsed, s_responses, exceptJobs>>

\* Line 110
SetProgressTen ==
    /\ j_pc = "progress"
    /\ book_jobs' = [book_jobs EXCEPT ![ProjectId].progress = 10]
    /\ j_pc' = "workflow"
    /\ UNCHANGED <<j_pdf_path, s_pc, s_elapsed, s_responses, exceptJobs>>

\* Lines 116-119: main_workflow returns; the path may be None, and the file
\* may be missing.
MainWorkflowReturns ==
    /\ j_pc = "workflow"
    /\ \E path \in {JobPdfPath, None}, on_disk \in BOOLEAN :
          /\ j_pdf_path' = path
          /\ j_pc' = IF path # None /\ on_disk THEN "completed" ELSE "failed"
    /\ UNCHANGED <<book_jobs, s_pc, s_elapsed, s_responses, exceptJobs>>

\* Lines 116, 130: main_workflow raises.
MainWorkflowRaises ==
    /\ j_pc = "workflow"
    /\ j_pc' = "failed"
    /\ UNCHANGED <<book_jobs, j_pdf_path, s_pc, s_elapsed, s_responses,
                   exceptJobs>>

\* Line 120
SetCompleted ==
    /\ j_pc = "completed"
    /\ book_jobs' = [book_jobs EXCEPT ![ProjectId].status = "completed"]
    /\ j_pc' = "progress100"
    /\ UNCHANGED <<j_pdf_path, s_pc, s_elapsed, s_responses, exceptJobs>>

\* Line 121
SetProgressHundred ==
    /\ j_pc = "progress100"
    /\ book_jobs' = [book_jobs EXCEPT ![ProjectId].progress = 100]
    /\ j_pc' = "pdf_path"
    /\ UNCHANGED <<j_pdf_path, s_pc, s_elapsed, s_responses, exceptJobs>>

\* Line 123
SetJobPdfPath ==
    /\ j_pc = "pdf_path"
    /\ book_jobs' = [book_jobs EXCEPT ![ProjectId].pdf_path = j_pdf_path]
    /\ j_pc' = "done"
    /\ UNCHANGED <<j_pdf_path, s_pc, s_elapsed, s_responses, exceptJobs>>

\* Lines 127 and 132
SetFailed ==
    /\ j_pc = "failed"
    /\ book_jobs' = [book_jobs EXCEPT ![ProjectId].status = "failed"]
    /\ j_pc' = "error"
    /\ UNCHANGED <<j_pdf_path, s_pc, s_elapsed, s_responses, exceptJobs>>

\* Lines 128 and 133
SetError ==
    /\ j_pc = "error"
    /\ book_jobs' = [book_jobs EXCEPT ![ProjectId].error = "Failed"]
    /\ j_pc' = "done"
    /\ UNCHANGED <<j_pdf_path, s_pc, s_elapsed, s_responses, exceptJobs>>

\* A response of get_book_status.
StatusResponse(code, job) ==
    [code |-> code, status |-> job.status, progress |-> job.progress,
     pdf_path |-> job.pdf_path]

\* Lines 139-151: the job is looked up and its status tested; for a running
\* job the elapsed time is taken, which never goes back.
StatusLookup ==
    /\ s_pc = "idle"
    /\ Len(s_responses) < MaxStatusRequests
    /\ IF ProjectId \notin DOMAIN book_jobs
       THEN /\ s_responses' =
                   Append(s_responses,
                          StatusResponse(404, [status |-> None, progress |-> 0,
                                               pdf_path |-> None]))
            /\ UNCHANGED <<s_pc, s_elapsed>>
       ELSE IF book_jobs[ProjectId].status = "generating"
       THEN /\ \E elapsed_time \in ElapsedTimes :
                  /\ elapsed_time >= s_elapsed
                  /\ s_elapsed' = elapsed_time
            /\ s_pc' = "update"
            /\ UNCHANGED s_responses
       ELSE /\ s_pc' = "respond"
            /\ UNCHANGED <<s_elapsed, s_responses>>
    /\ UNCHANGED <<book_jobs, j_pc, j_pdf_path, exceptJobs>>

\* Lines 154-166: the simulated progress is written into the job.
StatusWriteProgress ==
    /\ s_pc = "update"
    /\ book_jobs' =
           [book_jobs EXCEPT ![ProjectId].progress = SimulatedProgress(s_elapsed)]
    /\ s_pc' = "respond"
    /\ UNCHANGED <<j_pc, j_pdf_path, s_elapsed, s_responses, exceptJobs>>

\* Lines 168-174: the job's fields are sent.
StatusRespond ==
    /\ s_pc = "respond"
    /\ s_responses' =
           Append(s_responses, StatusResponse(200, book_jobs[ProjectId]))
    /\ s_pc' = "idle"
    /\ UNCHANGED <<book_jobs, j_pc, j_pdf_path, s_elapsed, exceptJobs>>

(***************************************************************************)
(* Claims about run_book_generation and get_book_status                     *)
(***************************************************************************)
\* The job, or a job that was never created.
Job ==
    IF ProjectId \in DOMAIN book_jobs THEN book_jobs[ProjectId]
    ELSE [status |-> None, progress |-> 0, pdf_path |-> None, error |-> None]

\* C28: under every interleaving of the worker thread run_book_generation
\* with get_book_status requests on the shared job, a job whose status is
\* "completed" always has progress 100 and a pdf_path that is not null, and
\* a status request never lowers the progress of a finished job.
C28_CompletedJobIsConsistent ==
    /\ [](Job.status = "completed" =>
              Job.progress = 100 /\ Job.pdf_path # None)
    /\ [][ (Job.status \in {"completed", "failed"} /\ s_pc = "update")
               => Job'.progress >= Job.progress ]_vars

(***************************************************************************)
(* Specifications, one per component.                                       *)
(***************************************************************************)
InitWriter == WriterInit /\ TextIdle /\ ImageIdle /\ ImpaginatorIdle
        /\ CreatorIdle /\ PdfIdle /\ IdeatorIdle /\ WorkflowIdle
        /\ IdeogramIdle /\ ContextIdle /\ AppIdle /\ JobsIdle

NextWriter ==
    \/ WriteStoryGenerated
    \/ WriteStoryFallback
    \/ WriteStoryParse

SpecWriter == InitWriter /\ [][NextWriter]_vars

InitText == TextInit /\ WriterIdle /\ ImageIdle /\ ImpaginatorIdle
        /\ CreatorIdle /\ PdfIdle /\ IdeatorIdle /\ WorkflowIdle
        /\ IdeogramIdle /\ ContextIdle /\ AppIdle /\ JobsIdle

NextText ==
    \/ SkipCover
    \/ GeneratePageText
    \/ GeneratePageTextRaises
    \/ SavePageTextRaises
    \/ UpdateFromPageRaises
    \/ SaveStoryContext
    \/ SaveStoryContextRaises

SpecText == InitText /\ [][NextText]_vars

InitImage == ImageInit /\ WriterIdle /\ TextIdle /\ ImpaginatorIdle
        /\ CreatorIdle /\ PdfIdle /\ IdeatorIdle /\ WorkflowIdle
        /\ IdeogramIdle /\ ContextIdle /\ AppIdle /\ JobsIdle

NextImage ==
    \/ GenerateBookCover
    \/ GenerateBookCoverRaises
    \/ NoBookCover
    \/ SkipCoverPage
    \/ GeneratePageImage
    \/ GeneratePageImageRaises
    \/ GenerateImagePromptRaises
    \/ ReturnGeneratedImages

SpecImage == InitImage /\ [][NextImage]_vars

InitImpaginator == ImpaginatorInit /\ WriterIdle /\ TextIdle /\ ImageIdle
        /\ CreatorIdle /\ PdfIdle /\ IdeatorIdle /\ WorkflowIdle
        /\ IdeogramIdle /\ ContextIdle /\ AppIdle /\ JobsIdle

NextImpaginator ==
    \/ CopyImages
    \/ CopyImagesRaises
    \/ ProcessChapter
    \/ RenderPdf
    \/ RenderPdfRaises

SpecImpaginator == InitImpaginator /\ [][NextImpaginator]_vars

InitCreator == CreatorInit /\ WriterIdle /\ TextIdle /\ ImageIdle
        /\ ImpaginatorIdle /\ PdfIdle /\ IdeatorIdle /\ WorkflowIdle
        /\ IdeogramIdle /\ ContextIdle /\ AppIdle /\ JobsIdle

NextCreator ==
    \/ CreatePlaceholderImage
    \/ CreatePlaceholderFallback
    \/ CreatePlaceholderFails
    \/ CreateCoverImage
    \/ CreateCoverFallback
    \/ CreateCoverFails

SpecCreator == InitCreator /\ [][NextCreator]_vars

InitPdf == PdfInit /\ WriterIdle /\ TextIdle /\ ImageIdle /\ ImpaginatorIdle
        /\ CreatorIdle /\ IdeatorIdle /\ WorkflowIdle /\ IdeogramIdle
        /\ ContextIdle /\ AppIdle /\ JobsIdle

NextPdf ==
    \/ AddCoverPage
    \/ NoCoverPage
    \/ SkipCoverEntry
    \/ AddImageAndTextPages
    \/ SkipPageWithoutImage
    \/ SavePdf
    \/ HtmlCover
    \/ HtmlSkipCoverEntry
    \/ HtmlAddSpread
    \/ HtmlSkipPage
    \/ HtmlFinish

SpecPdf == InitPdf /\ [][NextPdf]_vars

InitIdeator == IdeatorInit /\ WriterIdle /\ TextIdle /\ ImageIdle
        /\ ImpaginatorIdle /\ CreatorIdle /\ PdfIdle /\ WorkflowIdle
        /\ IdeogramIdle /\ ContextIdle /\ AppIdle /\ JobsIdle

NextIdeator ==
    \/ RunReturnsJson
    \/ RunReturnsNoJson
    \/ RunRaises
    \/ ReturnBookPlan
    \/ BuildBookPlanRaises

SpecIdeator == InitIdeator /\ [][NextIdeator]_vars

InitWorkflow == WorkflowInit /\ WriterIdle /\ TextIdle /\ ImageIdle
        /\ ImpaginatorIdle /\ CreatorIdle /\ PdfIdle /\ IdeatorIdle
        /\ IdeogramIdle /\ ContextIdle /\ AppIdle /\ JobsIdle

NextWorkflow ==
    \/ GenerateBookPlan
    \/ GenerateBookPlanEmpty
    \/ GenerateBookPlanRaises
    \/ WriteStoryContent
    \/ WriteStoryContentFails
    \/ GenerateImages
    \/ GenerateImagesRaises
    \/ CreatePdf
    \/ CreatePdfRendererFails
    \/ CreatePdfRaises
    \/ FinishWorkflow

SpecWorkflow == InitWorkflow /\ [][NextWorkflow]_vars

InitIdeogram == IdeogramInit /\ WriterIdle /\ TextIdle /\ ImageIdle
        /\ ImpaginatorIdle /\ CreatorIdle /\ PdfIdle /\ IdeatorIdle
        /\ WorkflowIdle /\ ContextIdle /\ AppIdle /\ JobsIdle

NextIdeogram ==
    \/ PostReturnsUrl
    \/ PostFails
    \/ PostReturnsNoUrl
    \/ DownloadSucceeds
    \/ DownloadFails
    \/ SaveImage
    \/ SaveImageRaises

SpecIdeogram == InitIdeogram /\ [][NextIdeogram]_vars

InitContext == ContextInit /\ WriterIdle /\ TextIdle /\ ImageIdle
        /\ ImpaginatorIdle /\ CreatorIdle /\ PdfIdle /\ IdeatorIdle
        /\ WorkflowIdle /\ IdeogramIdle /\ AppIdle /\ JobsIdle

NextContext ==
    \/ CallUpdateFromPage

SpecContext == InitContext /\ [][NextContext]_vars

InitApp == AppInit /\ WriterIdle /\ TextIdle /\ ImageIdle /\ ImpaginatorIdle
        /\ CreatorIdle /\ PdfIdle /\ IdeatorIdle /\ WorkflowIdle
        /\ IdeogramIdle /\ ContextIdle /\ JobsIdle

NextApp ==
    \/ GenerateBook
    \/ UpdateStatusProcessing
    \/ StageReturns
    \/ StageRaises
    \/ UpdateStatusCompleted
    \/ SetPdfPath
    \/ DownloadCheckStatus
    \/ DownloadSendFile

SpecApp == InitApp /\ [][NextApp]_vars

InitJobs == JobsInit /\ WriterIdle /\ TextIdle /\ ImageIdle
        /\ ImpaginatorIdle /\ CreatorIdle /\ PdfIdle /\ IdeatorIdle
        /\ WorkflowIdle /\ IdeogramIdle /\ ContextIdle /\ AppIdle

NextJobs ==
    \/ StartJob
    \/ SetGenerating
    \/ SetProgressTen
    \/ MainWorkflowReturns
    \/ MainWorkflowRaises
    \/ SetCompleted
    \/ SetProgressHundred
    \/ SetJobPdfPath
    \/ SetFailed
    \/ SetError
    \/ StatusLookup
    \/ StatusWriteProgress
    \/ StatusRespond

SpecJobs == InitJobs /\ [][NextJobs]_vars

====
